---- MODULE Spec2Model ----
(***************************************************************************)
(* Intent lifecycle and risk pipeline of polyagent-backend: the scheduler  *)
(* jobs (audit sweep, stale-approved sweep), the auditor, the execution    *)
(* worker pool with its retry path, and the stop-loss fast path driven by  *)
(* the realtime risk engine.                                               *)
(*                                                                         *)
(* Every repository call and every venue call is one step; the goroutines  *)
(* interleave between them.  Prices are integers in hundredths (0.50 is    *)
(* 50), sizes are whole units.                                             *)
(***************************************************************************)
EXTENDS Integers, Sequences, FiniteSets, TLC

\* ---------------------------------------------------------------- bounds
NumManaged == 1       \* intents submitted by managers (rows PENDING at start)
MaxIntents == 2       \* all intent rows: managed ones plus stop-loss closures
NumWorkers == 2       \* cfg.WorkerCount
QueueCap == 1         \* capacity of taskQueue (1000 in NewExecutor), scaled down
MaxRuns == 5          \* the count of handler runs per intent saturates here
MaxFaults == 1        \* calls of the repository or the venue that may fail
MaxEvents == 1        \* the realtime engine stops ticking after this many RiskEvents
NumSweeps == 2        \* executions of the audit job that may overlap

\* ------------------------------------------------------- program constants
maxRetries == 3

Workers == 1..NumWorkers
RT == 0                              \* the realtime engine's goroutine
Executors == Workers \cup {RT}       \* every goroutine that runs executeTask
IntentIds == 1..MaxIntents
ManagedIds == 1..NumManaged

Min(a, b) == IF a < b THEN a ELSE b
Abs(x) == IF x < 0 THEN -x ELSE x

\* decimal.IntPart of n / d for d > 0: the quotient truncated toward zero.
IntPart(n, d) == IF n >= 0 THEN n \div d ELSE -((-n) \div d)

\* ------------------------------------------------------------ models.go
IntentStatusPending == "PENDING"
IntentStatusAuditing == "AUDITING"
IntentStatusApproved == "APPROVED"
IntentStatusRejected == "REJECTED"
IntentStatusExecuting == "EXECUTING"
IntentStatusCompleted == "COMPLETED"
IntentStatusFailed == "FAILED"
IntentStatusCancelled == "CANCELLED"
NoRow == "NONE"                      \* no row with this id has been created

TradeSideBuy == "BUY"
TradeSideSell == "SELL"

SystemManager == "uuid.Nil"          \* ManagerID of a system-originated intent
HumanManager == "manager"

M1 == "M1"                           \* the market the managers trade in
M2 == "M2"                           \* another market of the venue
OutcomeYes == "YES"
OutcomeNo == "NO"

NoTx == ""                           \* ExecutedTx of a row never completed
NoTime == 0                          \* ExecutedAt == nil
SomeTime == 1                        \* ExecutedAt == &now

\* A TradeIntent row.  Audit is the serialized AuditResult (the list of the
\* checks' outcomes, <<>> before any audit).
TradeIntent(manager, side, size, price, orderType, status) ==
    [ManagerID |-> manager, MarketID |-> M1, OutcomeID |-> OutcomeYes,
     Side |-> side, Size |-> size, Price |-> price,
     OrderType |-> orderType, Status |-> status, Audit |-> << >>, Audited |-> FALSE, RejectReason |-> << >>,
     ExecutedTx |-> NoTx, ExecutedPrice |-> 0, ExecutedAt |-> NoTime]

EmptyRow == TradeIntent("", "", 0, 0, "", NoRow)

\* A Position row of the fund, in market M1 and outcome YES (PositionIn for
\* another key).  The table has no unique index on the key, so it is a list
\* of rows.
PositionIn(market, outcome, size, entry, current) ==
    [MarketID |-> market, OutcomeID |-> outcome,
     Size |-> size, EntryPrice |-> entry, CurrentPrice |-> current]

Position(size, entry, current) == PositionIn(M1, OutcomeYes, size, entry, current)

\* The Fund row: AUM in hundredths, the default stop-loss percent.
Fund == [TotalAUM |-> 100000, StopLossPercent |-> 10]

\* ------------------------------------------------------------ risk/rules.go
RiskRuleTypePositionLimit == "POSITION_LIMIT"
RiskRuleTypeDailyLossLimit == "DAILY_LOSS_LIMIT"
RiskRuleTypePriceDeviation == "PRICE_DEVIATION"
RiskRuleTypeConcentration == "CONCENTRATION"
RiskRuleTypeStopLoss == "STOP_LOSS"

KnownRuleTypes ==
    {RiskRuleTypePositionLimit, RiskRuleTypeDailyLossLimit, RiskRuleTypePriceDeviation,
     RiskRuleTypeConcentration, RiskRuleTypeStopLoss}

\* A RiskRule row is [RuleType, Params]; Params stands for the JSON blob: a
\* record with the fields of the rule type's parameter struct and the flag
\* json, which is FALSE when the blob does not unmarshal.
RiskRule(ruleType, params) == [RuleType |-> ruleType, Params |-> params]

\* The Validate methods of the parameter structs: TRUE when no error.
PositionLimitValidate(p) ==
    ~(p.max_position_size = 0 \/ p.max_total_exposure = 0)
DailyLossLimitValidate(p) == ~(p.max_daily_loss <= 0)
PriceDeviationValidate(p) ==
    ~(p.max_deviation_percent <= 0 \/ p.max_deviation_percent > 100)
ConcentrationValidate(p) ==
    ~(p.max_concentration_percent <= 0 \/ p.max_concentration_percent > 100)
StopLossValidate(p) == ~(p.stop_loss_percent <= 0 \/ p.stop_loss_percent > 100)

\* ParseRuleParams: [ok, params].  Only the POSITION_LIMIT branch calls
\* Validate; the other branches return the Unmarshal error alone.
ParseRuleParams(ruleType, data) ==
    IF ruleType \notin KnownRuleTypes
    THEN [ok |-> FALSE, params |-> data, err |-> "unknown rule type: " \o ruleType]
    ELSE IF ~data.json THEN [ok |-> FALSE, params |-> data, err |-> "unmarshal"]
    ELSE IF ruleType = RiskRuleTypePositionLimit /\ ~PositionLimitValidate(data)
    THEN [ok |-> FALSE, params |-> data, err |-> "position limits must be positive"]
    ELSE [ok |-> TRUE, params |-> data, err |-> ""]

RuleCheckResult(ruleType, passed, score, message) ==
    [RuleType |-> ruleType, Passed |-> passed, Score |-> score, Message |-> message]

RECURSIVE SumSeq(_)
SumSeq(s) == IF s = << >> THEN 0 ELSE Head(s) + SumSeq(Tail(s))

\* The sizes of the positions with the intent's (market, outcome), 0 for the
\* others; the signed notionals size * mark of the positions in ps.
MarketSizes(ps, in) ==
    [k \in 1..Len(ps) |->
        IF ps[k].MarketID = in.MarketID /\ ps[k].OutcomeID = in.OutcomeID
        THEN ps[k].Size ELSE 0]
Notionals(ps) ==
    [k \in 1..Len(ps) |-> ps[k].Size * ps[k].CurrentPrice]

\* The positions of ps in the intent's market (any outcome).
InMarket(ps, in) == SelectSeq(ps, LAMBDA pos : pos.MarketID = in.MarketID)

\* A position-limit check whose per-market limit is exclusive.
checkPositionLimitExclusive(params, in, ps) ==
    IF in.Size > params.max_single_position
    THEN RuleCheckResult(RiskRuleTypePositionLimit, FALSE, 80, "single")
    ELSE IF SumSeq(MarketSizes(ps, in)) + in.Size >= params.max_position_size
    THEN RuleCheckResult(RiskRuleTypePositionLimit, FALSE, 70, "market")
    ELSE IF SumSeq(Notionals(ps)) + in.Size * in.Price > params.max_total_exposure
    THEN RuleCheckResult(RiskRuleTypePositionLimit, FALSE, 75, "exposure")
    ELSE RuleCheckResult(RiskRuleTypePositionLimit, TRUE, 10, "ok")

checkPositionLimit(params, in, ps) ==
    IF in.Size > params.max_single_position
    THEN RuleCheckResult(RiskRuleTypePositionLimit, FALSE, 80, "single")
    ELSE IF SumSeq(MarketSizes(ps, in)) + in.Size > params.max_position_size
    THEN RuleCheckResult(RiskRuleTypePositionLimit, FALSE, 70, "market")
    ELSE IF SumSeq(Notionals(ps)) + in.Size * in.Price > params.max_total_exposure
    THEN RuleCheckResult(RiskRuleTypePositionLimit, FALSE, 75, "exposure")
    ELSE RuleCheckResult(RiskRuleTypePositionLimit, TRUE, 10, "ok")

\* calculateTodayLoss is a stub that returns zero.
calculateTodayLoss == 0

\* A max_daily_loss of zero was not rejected by ParseRuleParams; the score's
\* division then panics (decimal division by zero).
checkDailyLossLimit(params) ==
    IF calculateTodayLoss > params.max_daily_loss
    THEN RuleCheckResult(RiskRuleTypeDailyLossLimit, FALSE, 90, "loss")
    ELSE IF params.max_daily_loss = 0
    THEN RuleCheckResult(RiskRuleTypeDailyLossLimit, FALSE, 0, "panic")
    ELSE RuleCheckResult(RiskRuleTypeDailyLossLimit, TRUE,
             Min(100, IntPart(calculateTodayLoss * 100, params.max_daily_loss)), "ok")

\* deviation = |price - current| / current * 100, compared exactly (the
\* 16-digit rounding of decimal.Div cannot move it across a threshold of
\* the model); the score is its integer part.
checkPriceDeviation(params, in, currentPrice) ==
    IF in.Price = 0
    THEN RuleCheckResult(RiskRuleTypePriceDeviation, TRUE, 0, "market order")
    ELSE IF Abs(in.Price - currentPrice) * 100 > params.max_deviation_percent * currentPrice
    THEN RuleCheckResult(RiskRuleTypePriceDeviation, FALSE,
             (Abs(in.Price - currentPrice) * 100) \div currentPrice, "deviation")
    ELSE RuleCheckResult(RiskRuleTypePriceDeviation, TRUE,
             (Abs(in.Price - currentPrice) * 100) \div currentPrice, "ok")

\* A concentration check that takes the positions of every market.
checkConcentrationAllMarkets(params, in, ps, f) ==
    LET marketValue == SumSeq(Notionals(ps)) + in.Size * in.Price
    IN IF f.TotalAUM = 0
       THEN RuleCheckResult(RiskRuleTypeConcentration, TRUE, 0, "aum zero")
       ELSE IF marketValue * 100 > params.max_concentration_percent * f.TotalAUM
       THEN RuleCheckResult(RiskRuleTypeConcentration, FALSE,
                IntPart(marketValue * 100, f.TotalAUM), "concentration")
       ELSE RuleCheckResult(RiskRuleTypeConcentration, TRUE,
                IntPart(marketValue * 100, f.TotalAUM), "ok")

checkConcentration(params, in, ps, f) ==
    LET marketValue == SumSeq(Notionals(InMarket(ps, in))) + in.Size * in.Price
    IN IF f.TotalAUM = 0
       THEN RuleCheckResult(RiskRuleTypeConcentration, TRUE, 0, "aum zero")
       ELSE IF marketValue * 100 > params.max_concentration_percent * f.TotalAUM
       THEN RuleCheckResult(RiskRuleTypeConcentration, FALSE,
                IntPart(marketValue * 100, f.TotalAUM), "concentration")
       ELSE RuleCheckResult(RiskRuleTypeConcentration, TRUE,
                IntPart(marketValue * 100, f.TotalAUM), "ok")

\* A loss percent is kept as the exact fraction num / den with den > 0;
\* panic tells that its division was by zero.
Percent(num, den) == [num |-> num, den |-> den, panic |-> FALSE]
DivisionByZero == [num |-> 0, den |-> 1, panic |-> TRUE]

\* decimal.GreaterThan of a percent and a whole number of percent.
GreaterThan(x, threshold) == x.num > threshold * x.den

\* The loss percent checkStopLoss computes for a non-zero position: the
\* quotient by EntryPrice, which panics when that is 0, and no clamp.
auditLossPercent(pos) ==
    IF pos.EntryPrice = 0 THEN DivisionByZero
    ELSE IF pos.Size > 0
    THEN Percent((pos.EntryPrice - pos.CurrentPrice) * 100, pos.EntryPrice)
    ELSE Percent((pos.CurrentPrice - pos.EntryPrice) * 100, pos.EntryPrice)

RECURSIVE checkStopLoss(_, _)
checkStopLoss(params, positions) ==
    IF positions = << >>
    THEN RuleCheckResult(RiskRuleTypeStopLoss, TRUE, 0, "ok")
    ELSE IF Head(positions).Size = 0 THEN checkStopLoss(params, Tail(positions))
    ELSE IF auditLossPercent(Head(positions)).panic
    THEN RuleCheckResult(RiskRuleTypeStopLoss, FALSE, 0, "panic")
    ELSE IF GreaterThan(auditLossPercent(Head(positions)), params.stop_loss_percent)
    THEN RuleCheckResult(RiskRuleTypeStopLoss, FALSE, 100, "stop loss")
    ELSE checkStopLoss(params, Tail(positions))

checkRule(rule, in, ps, f, currentPrice) ==
    LET parsed == ParseRuleParams(rule.RuleType, rule.Params)
    IN IF ~parsed.ok
       THEN RuleCheckResult(rule.RuleType, FALSE, 100, "parse failed: " \o parsed.err)
       ELSE CASE rule.RuleType = RiskRuleTypePositionLimit ->
                     checkPositionLimit(parsed.params, in, ps)
              [] rule.RuleType = RiskRuleTypeDailyLossLimit ->
                     checkDailyLossLimit(parsed.params)
              [] rule.RuleType = RiskRuleTypePriceDeviation ->
                     checkPriceDeviation(parsed.params, in, currentPrice)
              [] rule.RuleType = RiskRuleTypeConcentration ->
                     checkConcentration(parsed.params, in, ps, f)
              [] rule.RuleType = RiskRuleTypeStopLoss ->
                     checkStopLoss(parsed.params, ps)
              [] OTHER -> RuleCheckResult(rule.RuleType, FALSE, 50, "unknown rule type")

\* The loop of AuditIntent: the checks of all rules, in query order.
Checks(rs, in, ps, f, currentPrice) ==
    [k \in 1..Len(rs) |-> checkRule(rs[k], in, ps, f, currentPrice)]

\* A verdict that the last check alone decides.
ResultPassedLast(checks) == checks = << >> \/ checks[Len(checks)].Passed

\* result.Passed starts true and is cleared by every failing check.
ResultPassed(checks) == \A k \in 1..Len(checks) : checks[k].Passed

RECURSIVE formatRejectReason(_)
formatRejectReason(checks) ==
    IF checks = << >> THEN <<"unknown">>
    ELSE IF ~Head(checks).Passed
    THEN <<Head(checks).RuleType, Head(checks).Message>>
    ELSE formatRejectReason(Tail(checks))

\* The mark price AuditIntent uses: decimal.NewFromFloat(0.5).
AuditCurrentPrice == 50

VARIABLES
    intents,      \* table trade_intent: id -> row
    positions,    \* table position: the rows of the key, in insertion order
    rules,        \* table risk_rule: the fund's active rules, in query order
    fund,         \* table fund: the row of the one fund
    venue,        \* the venue's Market of M1, as GetMarket returns it
    auditLogs,    \* table audit_log: id -> the results written, in order
    riskEvents,   \* table risk_event: how many CRITICAL events were appended
    nextId,       \* the next fresh intent id (uuid.New in BeforeCreate)
    taskQueue,    \* Executor.taskQueue, a buffered channel of ExecutionTask
    pc,           \* per executor goroutine: where it is in worker/executeTask
    task,         \* per executor goroutine: the ExecutionTask in hand
    intent,       \* per executor goroutine: executeTask's local *TradeIntent
    loaded,       \* per executor goroutine: the status GetTradeIntent returned
    orderReq,     \* per executor goroutine: the OrderRequest built
    resp,         \* per executor goroutine: the OrderResponse of PlaceOrder
    lpos,         \* per executor goroutine: updatePosition's local *Position
    err,          \* per executor goroutine: the error executeTask returned
    auditPc,      \* auditPendingIntents, per execution: where it is
    auditBatch,   \* auditPendingIntents, per execution: the fetched rows not yet handled
    auditCur,     \* auditPendingIntents, per execution: the loop variable (id and local row)
    rtBatch,      \* realtime engine: the breached position copies still to handle
    faults,       \* how many repository and venue calls have failed so far
    runs,         \* observer: id -> how often executeTask was entered for it
    dropped,      \* observer: the ids whose task SubmitTask dropped
    mainPc        \* main: where it is between the exit signal and its return

vars == <<intents, positions, rules, fund, venue, auditLogs, riskEvents, nextId, taskQueue,
          pc, task, intent, loaded, orderReq, resp, lpos, err,
          auditPc, auditBatch, auditCur, rtBatch, faults, runs, dropped, mainPc>>

tableVars == <<intents, positions, rules, fund, venue, auditLogs, riskEvents, nextId>>
localVars == <<task, intent, loaded, orderReq, resp, lpos, err>>
auditVars == <<auditPc, auditBatch, auditCur>>

\* The actions of the goroutines say nothing of faults, runs and dropped,
\* and nothing of main, which waits for the exit signal while they run;
\* each specification adds what it counts and observes.
Step(A) == A /\ UNCHANGED <<faults, runs, dropped, mainPc>>
Fault(A) ==
    /\ faults < MaxFaults
    /\ A
    /\ faults' = faults + 1
    /\ UNCHANGED <<runs, dropped, mainPc>>

\* ------------------------------------------------- repository (the facade)
\* GetTradeIntent: a copy of the row.
GetTradeIntent(id) == intents[id]

\* UpdateTradeIntent saves the whole row and stamps UpdatedAt.
UpdateTradeIntent(tbl, id, row) == [tbl EXCEPT ![id] = row]

\* GetPendingIntents / GetStaleApprovedIntents: the matching ids in id order
\* (the batch sizes, 100 and 50, exceed the number of rows of the model).
RECURSIVE SeqOfSet(_)
SeqOfSet(S) ==
    IF S = {} THEN << >>
    ELSE LET m == CHOOSE x \in S : \A y \in S : x <= y
         IN <<m>> \o SeqOfSet(S \ {m})

GetPendingIntents ==
    SeqOfSet({i \in IntentIds : intents[i].Status = IntentStatusPending})

\* stale is the set of ids whose UpdatedAt is more than five minutes ago.
GetStaleApprovedIntents(stale) ==
    SeqOfSet({i \in stale : intents[i].Status = IntentStatusApproved})

\* GetFundPositions: all rows.  GetPosition: the first row with the key, 0
\* when there is none (gorm.ErrRecordNotFound).
GetFundPositions == positions
GetPosition(market, outcome) ==
    LET ks == {k \in 1..Len(positions) :
                  positions[k].MarketID = market /\ positions[k].OutcomeID = outcome}
    IN IF ks = {} THEN 0 ELSE CHOOSE k \in ks : \A j \in ks : k <= j

\* SavePosition: an upsert by primary key; a row without id is inserted.
SavePosition(tbl, p) ==
    LET row == PositionIn(p.MarketID, p.OutcomeID, p.Size, p.EntryPrice, p.CurrentPrice)
    IN IF p.Row = 0 THEN Append(tbl, row) ELSE [tbl EXCEPT ![p.Row] = row]

\* --------------------------------------------------- executor/executor.go
ExecutionTask(id) == [IntentID |-> id, Retries |-> 0]
NoTask == [IntentID |-> 0, Retries |-> 0]
NoRequest == [Side |-> "", Size |-> 0, Price |-> 0]
NoResponse == [FilledSize |-> 0, AvgFillPrice |-> 0, TransactionID |-> NoTx, Error |-> ""]
NoLocalPosition ==
    [Row |-> 0, MarketID |-> "", OutcomeID |-> "", Size |-> 0, EntryPrice |-> 0,
     CurrentPrice |-> 0]

\* updatePosition: the new position made for the intent's key.
NewPosition(in) ==
    [NoLocalPosition EXCEPT !.MarketID = in.MarketID, !.OutcomeID = in.OutcomeID]

\* A send into a channel without capacity limit.
SubmitUnbounded(q, id) == Append(q, ExecutionTask(id))

\* SubmitTask: a non-blocking send of a new task for the intent id; the
\* default branch of the select drops it when the channel is full.
SubmitTask(q, id) ==
    IF Len(q) < QueueCap THEN Append(q, ExecutionTask(id)) ELSE q

\* A loop of the engine that ends with the position in hand, whatever is
\* left of the snapshot.
AfterTaskAbort(p) == IF p # RT THEN "idle" ELSE "rtWait"

\* Where a goroutine goes when executeTask has returned: a worker back to
\* its select, the realtime engine on to the next position of its loop.
AfterTask(p) ==
    IF p # RT THEN "idle" ELSE IF rtBatch = << >> THEN "rtWait" ELSE "rtClose"

\* executeTask has returned and the goroutine's locals are dead.
Release(p) ==
    /\ task' = [task EXCEPT ![p] = NoTask]
    /\ intent' = [intent EXCEPT ![p] = EmptyRow]
    /\ loaded' = [loaded EXCEPT ![p] = NoRow]
    /\ orderReq' = [orderReq EXCEPT ![p] = NoRequest]
    /\ resp' = [resp EXCEPT ![p] = NoResponse]
    /\ lpos' = [lpos EXCEPT ![p] = NoLocalPosition]
    /\ err' = [err EXCEPT ![p] = ""]

\* executeTask returns the error e.
Fail(p, e) ==
    /\ pc' = [pc EXCEPT ![p] = "failed"]
    /\ err' = [err EXCEPT ![p] = e]

\* worker: case task := <-e.taskQueue
Dequeue(w) ==
    /\ pc[w] = "idle"
    /\ taskQueue # << >>
    /\ task' = [task EXCEPT ![w] = Head(taskQueue)]
    /\ taskQueue' = Tail(taskQueue)
    /\ pc' = [pc EXCEPT ![w] = "load"]
    /\ UNCHANGED <<tableVars, intent, loaded, orderReq, resp, lpos, err, auditVars, rtBatch>>

\* A status check that lets every loaded row pass.
StatusUnchecked(row) == TRUE

\* executeTask: the status check on the row it loaded.
StatusOk(row) == row.Status = IntentStatusApproved

\* executeTask: GetTradeIntent succeeded; the status check follows.
LoadIntent(p) ==
    /\ pc[p] = "load"
    /\ LET row == GetTradeIntent(task[p].IntentID)
       IN /\ loaded' = [loaded EXCEPT ![p] = row.Status]
          /\ intent' = [intent EXCEPT ![p] = row]
          /\ IF StatusOk(row)
             THEN pc' = [pc EXCEPT ![p] = "markExecuting"] /\ err' = err
             ELSE Fail(p, "status")
    /\ UNCHANGED <<tableVars, taskQueue, task, orderReq, resp, lpos, auditVars, rtBatch>>

\* executeTask: GetTradeIntent returned an error.
LoadIntentErr(p) ==
    /\ pc[p] = "load"
    /\ Fail(p, "repository")
    /\ UNCHANGED <<tableVars, taskQueue, task, intent, loaded, orderReq, resp, lpos,
                   auditVars, rtBatch>>

\* executeTask: intent.Status = EXECUTING; UpdateTradeIntent succeeded.
MarkExecuting(p) ==
    /\ pc[p] = "markExecuting"
    /\ LET row == [intent[p] EXCEPT !.Status = IntentStatusExecuting]
       IN /\ intent' = [intent EXCEPT ![p] = row]
          /\ intents' = UpdateTradeIntent(intents, task[p].IntentID, row)
    /\ pc' = [pc EXCEPT ![p] = "placeOrder"]
    /\ UNCHANGED <<positions, rules, fund, venue, auditLogs, riskEvents, nextId, taskQueue, task,
                   loaded, orderReq, resp, lpos, err, auditVars, rtBatch>>

\* executeTask: that UpdateTradeIntent failed; nothing was persisted.
MarkExecutingErr(p) ==
    /\ pc[p] = "markExecuting"
    /\ intent' = [intent EXCEPT ![p].Status = IntentStatusExecuting]
    /\ Fail(p, "repository")
    /\ UNCHANGED <<tableVars, taskQueue, task, loaded, orderReq, resp, lpos, auditVars,
                   rtBatch>>

\* The venue's Market for M1: the sides of the book and the last price.
Market(bid, ask, last) == [BestBid |-> bid, BestAsk |-> ask, LastPrice |-> last]
Markets == {Market(49, 51, 50)}

\* The execution price with the sides of the book exchanged.
ExecutionPriceCrossed(in, market) ==
    IF in.Price # 0 THEN in.Price
    ELSE IF in.Side = TradeSideBuy THEN market.BestBid ELSE market.BestAsk

\* executeTask: the execution price, from the limit price or the market.
ExecutionPrice(in, market) ==
    IF in.Price # 0 THEN in.Price
    ELSE IF in.Side = TradeSideBuy THEN market.BestAsk ELSE market.BestBid

\* executeTask: the OrderRequest built from the intent and the market.
OrderRequest(in, market) ==
    [Side |-> in.Side, Size |-> in.Size, Price |-> ExecutionPrice(in, market)]

\* executeTask: GetMarket failed (transport error or a non-200 answer).
GetMarketErr(p) ==
    /\ pc[p] = "placeOrder"
    /\ Fail(p, "transport")
    /\ UNCHANGED <<tableVars, taskQueue, task, intent, loaded, orderReq, resp, lpos,
                   auditVars, rtBatch>>

\* The venue's answers to an accepted order: filled in full at the order's price.
Fills(req) ==
    {[FilledSize |-> req.Size, AvgFillPrice |-> req.Price, TransactionID |-> "tx",
      Error |-> ""]}

\* executeTask: GetMarket succeeded, the order request was built, and
\* PlaceOrder returned a response without error.
PlaceOrder(p) ==
    /\ pc[p] = "placeOrder"
    /\ \E m \in {venue} :
          LET req == OrderRequest(intent[p], m)
          IN /\ orderReq' = [orderReq EXCEPT ![p] = req]
             /\ \E r \in Fills(req) : resp' = [resp EXCEPT ![p] = r]
    /\ pc' = [pc EXCEPT ![p] = "complete"]
    /\ UNCHANGED <<tableVars, taskQueue, task, intent, loaded, lpos, err, auditVars,
                   rtBatch>>

\* executeTask: GetMarket succeeded and PlaceOrder failed with a transport
\* error (or a non-200 answer).
PlaceOrderTransportErr(p) ==
    /\ pc[p] = "placeOrder"
    /\ orderReq' = [orderReq EXCEPT ![p] = OrderRequest(intent[p], venue)]
    /\ Fail(p, "transport")
    /\ UNCHANGED <<tableVars, taskQueue, task, intent, loaded, resp, lpos, auditVars,
                   rtBatch>>

\* executeTask: GetMarket succeeded and the venue answered the order with a
\* non-empty OrderResponse.Error.
PlaceOrderVenueErr(p) ==
    /\ pc[p] = "placeOrder"
    /\ orderReq' = [orderReq EXCEPT ![p] = OrderRequest(intent[p], venue)]
    /\ resp' = [resp EXCEPT ![p] = [NoResponse EXCEPT !.Error = "rejected"]]
    /\ Fail(p, "venue")
    /\ UNCHANGED <<tableVars, taskQueue, task, intent, loaded, lpos, auditVars, rtBatch>>

\* A success write that sets the status and none of the execution fields.
CompletedBare(row, r) == [row EXCEPT !.Status = IntentStatusCompleted]

\* executeTask: the row written on success.
Completed(row, r) ==
    [row EXCEPT !.Status = IntentStatusCompleted, !.ExecutedTx = r.TransactionID,
                !.ExecutedPrice = r.AvgFillPrice, !.ExecutedAt = SomeTime]

\* executeTask: the COMPLETED row was persisted.
Complete(p) ==
    /\ pc[p] = "complete"
    /\ LET row == Completed(intent[p], resp[p])
       IN /\ intent' = [intent EXCEPT ![p] = row]
          /\ intents' = UpdateTradeIntent(intents, task[p].IntentID, row)
    /\ pc' = [pc EXCEPT ![p] = "getPosition"]
    /\ UNCHANGED <<positions, rules, fund, venue, auditLogs, riskEvents, nextId, taskQueue, task,
                   loaded, orderReq, resp, lpos, err, auditVars, rtBatch>>

\* executeTask: persisting COMPLETED failed; the error is logged only.
CompleteErr(p) ==
    /\ pc[p] = "complete"
    /\ intent' = [intent EXCEPT ![p] = Completed(intent[p], resp[p])]
    /\ pc' = [pc EXCEPT ![p] = "getPosition"]
    /\ UNCHANGED <<tableVars, taskQueue, task, loaded, orderReq, resp, lpos, err,
                   auditVars, rtBatch>>

\* decimal.Div at the model's scale of hundredths, rounded half up.
DivRound(num, den) == (2 * num + den) \div (2 * den)

\* updatePosition with the entry price of a closed position replaced by the
\* price of the closing fill.
ApplyFillReset(pos, side, r) ==
    LET size == IF side = TradeSideBuy THEN pos.Size + r.FilledSize
                ELSE pos.Size - r.FilledSize
        entry == IF size # 0
                 THEN DivRound(pos.EntryPrice * Abs(size) + r.AvgFillPrice * r.FilledSize,
                               Abs(size))
                 ELSE r.AvgFillPrice
    IN [pos EXCEPT !.Size = size, !.EntryPrice = entry, !.CurrentPrice = r.AvgFillPrice]

\* updatePosition: the new size and entry price of the local position.
ApplyFill(pos, side, r) ==
    LET size == IF side = TradeSideBuy THEN pos.Size + r.FilledSize
                ELSE pos.Size - r.FilledSize
        entry == IF size # 0
                 THEN DivRound(pos.EntryPrice * Abs(size) + r.AvgFillPrice * r.FilledSize,
                               Abs(size))
                 ELSE pos.EntryPrice
    IN [pos EXCEPT !.Size = size, !.EntryPrice = entry, !.CurrentPrice = r.AvgFillPrice]

\* updatePosition: GetPosition found the row, or found none and a new
\* position is made; the fill is applied to the local copy.
ReadPosition(p) ==
    /\ pc[p] = "getPosition"
    /\ LET k == GetPosition(intent[p].MarketID, intent[p].OutcomeID)
           pos == IF k = 0 THEN NewPosition(intent[p])
                  ELSE [Row |-> k, MarketID |-> positions[k].MarketID,
                        OutcomeID |-> positions[k].OutcomeID,
                        Size |-> positions[k].Size,
                        EntryPrice |-> positions[k].EntryPrice,
                        CurrentPrice |-> positions[k].CurrentPrice]
       IN lpos' = [lpos EXCEPT ![p] = ApplyFill(pos, intent[p].Side, resp[p])]
    /\ pc' = [pc EXCEPT ![p] = "savePosition"]
    /\ UNCHANGED <<tableVars, taskQueue, task, intent, loaded, orderReq, resp, err,
                   auditVars, rtBatch>>

\* updatePosition: GetPosition failed with another error; the code makes a
\* new position as well.
ReadPositionErr(p) ==
    /\ pc[p] = "getPosition"
    /\ lpos' = [lpos EXCEPT ![p] = ApplyFill(NewPosition(intent[p]), intent[p].Side, resp[p])]
    /\ pc' = [pc EXCEPT ![p] = "savePosition"]
    /\ UNCHANGED <<tableVars, taskQueue, task, intent, loaded, orderReq, resp, err,
                   auditVars, rtBatch>>

\* updatePosition: SavePosition succeeded; executeTask returns nil.
WritePosition(p) ==
    /\ pc[p] = "savePosition"
    /\ positions' = SavePosition(positions, lpos[p])
    /\ pc' = [pc EXCEPT ![p] = AfterTask(p)]
    /\ Release(p)
    /\ UNCHANGED <<intents, rules, fund, venue, auditLogs, riskEvents, nextId, taskQueue, auditVars,
                   rtBatch>>

\* updatePosition: SavePosition failed; logged, executeTask returns nil.
WritePositionErr(p) ==
    /\ pc[p] = "savePosition"
    /\ pc' = [pc EXCEPT ![p] = AfterTask(p)]
    /\ Release(p)
    /\ UNCHANGED <<tableVars, taskQueue, auditVars, rtBatch>>

\* failIntent: load the row, set FAILED and the reason, save it.
failIntent(tbl, id, reason) ==
    UpdateTradeIntent(tbl, id,
        [tbl[id] EXCEPT !.Status = IntentStatusFailed, !.RejectReason = reason])

\* worker: what the retry branch puts on the queue for its task t (whose
\* Retries it has just incremented): SubmitTask is given the intent id only.
Resubmit(q, t) == SubmitTask(q, t.IntentID)

\* worker: executeTask returned an error.  While task.Retries < maxRetries
\* the worker counts the retry on its task, sleeps and resubmits; else it
\* calls failIntent.
HandleError(w) ==
    /\ w \in Workers
    /\ pc[w] = "failed"
    /\ IF task[w].Retries < maxRetries
       THEN /\ taskQueue' = Resubmit(taskQueue, [task[w] EXCEPT !.Retries = @ + 1])
            /\ UNCHANGED intents
       ELSE /\ intents' = failIntent(intents, task[w].IntentID, <<"retries", maxRetries>>)
            /\ UNCHANGED taskQueue
    /\ pc' = [pc EXCEPT ![w] = "idle"]
    /\ Release(w)
    /\ UNCHANGED <<positions, rules, fund, venue, auditLogs, riskEvents, nextId, auditVars, rtBatch>>

\* ExecuteStopLoss / getOppositeSide
getOppositeSide(size) == IF size > 0 THEN TradeSideSell ELSE TradeSideBuy

\* ExecuteStopLoss: the closing intent for a position.
CloseIntent(pos) ==
    [TradeIntent(SystemManager, getOppositeSide(pos.Size), Abs(pos.Size), 0, "MARKET",
                 IntentStatusApproved)
        EXCEPT !.MarketID = pos.MarketID, !.OutcomeID = pos.OutcomeID]

\* ------------------------------------------------ risk/rules.go, AuditIntent
\* serializeResult: the verdict and the checks, as stored on the row.
AuditOutcome(checks) == checks

\* The AuditLog rows AuditIntent creates, one per check.
AuditLogResults(checks) ==
    [k \in 1..Len(checks) |->
        [RuleType |-> checks[k].RuleType,
         Result |-> IF checks[k].Passed THEN "PASS" ELSE "FAIL",
         Details |-> checks[k].Message]]

\* A check divides by zero (decimal.Div panics).
Panics(checks) == \E k \in 1..Len(checks) : checks[k].Message = "panic"

\* The checks that were made and logged before the first one that panics.
BeforePanic(checks) ==
    LET k == CHOOSE j \in 1..Len(checks) :
                 /\ checks[j].Message = "panic"
                 /\ \A i \in 1..(j - 1) : checks[i].Message # "panic"
    IN SubSeq(checks, 1, k - 1)

\* The sequence s without its k-th element.
Without(s, k) == SubSeq(s, 1, k - 1) \o SubSeq(s, k + 1, Len(s))

\* AuditIntent: the row it saves, from the checks of the rules.
Audited(row, checks) ==
    IF ResultPassed(checks)
    THEN [row EXCEPT !.Status = IntentStatusApproved, !.Audit = AuditOutcome(checks),
                     !.Audited = TRUE]
    ELSE [row EXCEPT !.Status = IntentStatusRejected,
                     !.RejectReason = formatRejectReason(checks),
                     !.Audit = AuditOutcome(checks), !.Audited = TRUE]

\* ------------------------------------------------ scheduler (unnamed/part_001)
\* The executions of the audit job that can be running at a time: the job is
\* registered without singleton mode, so a tick starts an execution while
\* the one before is still in its loop.
AuditRuns == 1..NumSweeps

\* The execution of the audit job in the runs where every sweep has ended
\* before the next tick of its 5 seconds.
OneSweep == {1}

AuditGoOn(batch) == IF batch = << >> THEN "wait" ELSE "mark"

\* auditPendingIntents: GetPendingIntents returned a non-empty batch.
AuditFetch(r) ==
    /\ auditPc[r] = "wait"
    /\ GetPendingIntents # << >>
    /\ auditBatch' = [auditBatch EXCEPT ![r] =
                         [k \in 1..Len(GetPendingIntents) |->
                             [id |-> GetPendingIntents[k],
                              row |-> intents[GetPendingIntents[k]]]]]
    /\ auditPc' = [auditPc EXCEPT ![r] = "mark"]
    /\ UNCHANGED <<tableVars, taskQueue, pc, localVars, auditCur, rtBatch>>

\* auditPendingIntents: intent.Status = AUDITING on the fetched copy, saved.
AuditMark(r) ==
    /\ auditPc[r] = "mark"
    /\ LET cur == Head(auditBatch[r])
           row == [cur.row EXCEPT !.Status = IntentStatusAuditing]
       IN /\ intents' = UpdateTradeIntent(intents, cur.id, row)
          /\ auditCur' = [auditCur EXCEPT ![r] = [id |-> cur.id, row |-> row]]
    /\ auditBatch' = [auditBatch EXCEPT ![r] = Tail(@)]
    /\ auditPc' = [auditPc EXCEPT ![r] = "audit"]
    /\ UNCHANGED <<positions, rules, fund, venue, auditLogs, riskEvents, nextId, taskQueue, pc,
                   localVars, rtBatch>>

\* auditPendingIntents: that save failed; continue with the next intent.
AuditMarkErr(r) ==
    /\ auditPc[r] = "mark"
    /\ auditBatch' = [auditBatch EXCEPT ![r] = Tail(@)]
    /\ auditPc' = [auditPc EXCEPT ![r] = AuditGoOn(Tail(auditBatch[r]))]
    /\ UNCHANGED <<tableVars, taskQueue, pc, localVars, auditCur, rtBatch>>

\* A sweep that submits a task whatever the audit returned.
AfterAuditAlways(returned, passed, batch) == "submit"

\* auditPendingIntents: after AuditIntent, continue when it returned an
\* error, call SubmitTask when result.Passed, else go on with the loop.
AfterAudit(returned, passed, batch) ==
    IF returned /\ passed THEN "submit" ELSE AuditGoOn(batch)

\* The checks AuditIntent makes for the intent in hand of the execution r.
AuditChecks(r) ==
    Checks(rules, auditCur[r].row, GetFundPositions, fund, AuditCurrentPrice)

\* AuditIntent: the end of a run whose checks were made; logged are the
\* AuditLog rows that were written, and save tells whether UpdateTradeIntent
\* succeeded.
AuditIntentEnd(r, logged, save) ==
    LET checks == AuditChecks(r)
        row == Audited(auditCur[r].row, checks)
    IN /\ auditPc[r] = "audit"
       /\ ~Panics(checks)
       /\ auditLogs' = [auditLogs EXCEPT ![auditCur[r].id] = @ \o logged]
       /\ intents' = IF save THEN UpdateTradeIntent(intents, auditCur[r].id, row)
                     ELSE intents
       /\ auditCur' = [auditCur EXCEPT ![r].row = row]
       /\ auditPc' = [auditPc EXCEPT ![r] =
                         AfterAudit(save, ResultPassed(checks), auditBatch[r])]
       /\ UNCHANGED <<positions, rules, fund, venue, riskEvents, nextId, taskQueue, pc,
                      localVars, auditBatch, rtBatch>>

\* AuditIntent ran to its end: rules, positions and fund were read, every rule
\* was checked and logged, and the verdict was saved on the row.
AuditIntent(r) == AuditIntentEnd(r, AuditLogResults(AuditChecks(r)), TRUE)

\* AuditIntent ran to its end, and the CreateAuditLog of one check failed:
\* the error is logged and the loop goes on.
AuditIntentLogErr(r) ==
    \E k \in 1..Len(rules) :
        AuditIntentEnd(r, Without(AuditLogResults(AuditChecks(r)), k), TRUE)

\* AuditIntent checked and logged the rules, and its UpdateTradeIntent failed.
AuditIntentSaveErr(r) == AuditIntentEnd(r, AuditLogResults(AuditChecks(r)), FALSE)

\* AuditIntent returned an error from one of its reads, before any check.
AuditIntentErr(r) ==
    /\ auditPc[r] = "audit"
    /\ auditPc' = [auditPc EXCEPT ![r] = AuditGoOn(auditBatch[r])]
    /\ UNCHANGED <<tableVars, taskQueue, pc, localVars, auditBatch, auditCur, rtBatch>>

\* AuditIntent panics in a check that divides by zero: the checks before it
\* are logged, the row stays AUDITING, and the execution of the job ends
\* (the scheduler recovers the panic).
AuditPanic(r) ==
    /\ auditPc[r] = "audit"
    /\ Panics(AuditChecks(r))
    /\ auditLogs' = [auditLogs EXCEPT ![auditCur[r].id] =
                        @ \o AuditLogResults(BeforePanic(AuditChecks(r)))]
    /\ auditBatch' = [auditBatch EXCEPT ![r] = << >>]
    /\ auditPc' = [auditPc EXCEPT ![r] = "wait"]
    /\ UNCHANGED <<intents, positions, rules, fund, venue, riskEvents, nextId, taskQueue, pc,
                   localVars, auditCur, rtBatch>>

\* auditPendingIntents: result.Passed, so s.executor.SubmitTask(intent.ID).
AuditSubmit(r) ==
    /\ auditPc[r] = "submit"
    /\ taskQueue' = SubmitTask(taskQueue, auditCur[r].id)
    /\ auditPc' = [auditPc EXCEPT ![r] = AuditGoOn(auditBatch[r])]
    /\ UNCHANGED <<tableVars, pc, localVars, auditBatch, auditCur, rtBatch>>

\* A loop that submits nothing.
SubmitNone(q, ids) == q

\* executeApprovedIntents: the loop that calls SubmitTask for every intent
\* of the batch.
RECURSIVE SubmitAll(_, _)
SubmitAll(q, ids) ==
    IF ids = << >> THEN q ELSE SubmitAll(SubmitTask(q, Head(ids)), Tail(ids))

\* executeApprovedIntents: five minutes have passed since the last update
\* of the rows in stale; GetStaleApprovedIntents returns those of them that
\* are APPROVED, and SubmitTask is called for each.
executeApprovedIntents(stale) ==
    /\ GetStaleApprovedIntents(stale) # << >>
    /\ taskQueue' = SubmitAll(taskQueue, GetStaleApprovedIntents(stale))
    /\ UNCHANGED <<tableVars, pc, localVars, auditVars, rtBatch>>

\* ------------------------------------------------------- risk/realtime.go
\* calculateLossPercent: 0 for EntryPrice 0, the long formula for a
\* positive size and the short one for every other size, clamped at 0.
calculateLossPercent(pos) ==
    IF pos.EntryPrice = 0 THEN Percent(0, 1)
    ELSE LET loss == IF pos.Size > 0
                     THEN (pos.EntryPrice - pos.CurrentPrice) * 100
                     ELSE (pos.CurrentPrice - pos.EntryPrice) * 100
         IN Percent(IF loss < 0 THEN 0 ELSE loss, pos.EntryPrice)

LossExceeds(pos, threshold) == GreaterThan(calculateLossPercent(pos), threshold)

\* GetRiskRulesByType(fund, STOP_LOSS)
StopLossRules == SelectSeq(rules, LAMBDA r : r.RuleType = RiskRuleTypeStopLoss)

\* checkFund / checkStopLossWithDefault: the positions of the snapshot, in
\* order, for which the stop-loss fires.  With a rule the zero-size
\* positions are skipped; with the fund's default they are not.
BreachedWith(rs, snapshot) ==
    IF rs = << >>
    THEN IF fund.StopLossPercent = 0 THEN << >>
         ELSE SelectSeq(snapshot, LAMBDA pos : LossExceeds(pos, fund.StopLossPercent))
    ELSE IF ~ParseRuleParams(RiskRuleTypeStopLoss, rs[1].Params).ok THEN << >>
    ELSE SelectSeq(snapshot, LAMBDA pos :
             pos.Size # 0 /\ LossExceeds(pos, rs[1].Params.stop_loss_percent))

\* checkFund when GetRiskRulesByType returned the rules.
Breached(snapshot) == BreachedWith(StopLossRules, snapshot)

\* checkAllFunds -> checkFund: the positions are read once, and the loop
\* runs over that snapshot.
RtTick ==
    /\ pc[RT] = "rtWait"
    /\ Breached(GetFundPositions) # << >>
    /\ riskEvents < MaxEvents
    /\ nextId + Len(Breached(GetFundPositions)) - 1 <= MaxIntents
    /\ rtBatch' = Breached(GetFundPositions)
    /\ pc' = [pc EXCEPT ![RT] = "rtClose"]
    /\ UNCHANGED <<tableVars, taskQueue, localVars, auditVars>>

\* checkFund: GetRiskRulesByType returned an error, and the fund's default
\* is used as if the fund had no rule.
RtTickRulesErr ==
    /\ pc[RT] = "rtWait"
    /\ BreachedWith(<< >>, GetFundPositions) # << >>
    /\ riskEvents < MaxEvents
    /\ nextId + Len(BreachedWith(<< >>, GetFundPositions)) - 1 <= MaxIntents
    /\ rtBatch' = BreachedWith(<< >>, GetFundPositions)
    /\ pc' = [pc EXCEPT ![RT] = "rtClose"]
    /\ UNCHANGED <<tableVars, taskQueue, localVars, auditVars>>

\* checkFund -> ExecuteStopLoss: CreateRiskEvent recorded the event (ok) or
\* failed, which is logged or ignored; CreateTradeIntent then stored the
\* closing intent as APPROVED, and executeTask is called on the caller's
\* goroutine, not through the queue.
CloseBreached(ok) ==
    /\ pc[RT] = "rtClose"
    /\ nextId <= MaxIntents
    /\ riskEvents' = IF ok THEN riskEvents + 1 ELSE riskEvents
    /\ intents' = [intents EXCEPT ![nextId] = CloseIntent(Head(rtBatch))]
    /\ nextId' = nextId + 1
    /\ task' = [task EXCEPT ![RT] = ExecutionTask(nextId)]
    /\ rtBatch' = Tail(rtBatch)
    /\ pc' = [pc EXCEPT ![RT] = "load"]
    /\ UNCHANGED <<positions, rules, fund, venue, auditLogs, taskQueue, intent, loaded,
                   orderReq, resp, lpos, err, auditVars>>

ExecuteStopLoss == CloseBreached(TRUE)
RtEventErr == CloseBreached(FALSE)

\* ExecuteStopLoss: the event is recorded, then CreateTradeIntent failed;
\* the error goes to the engine.
ExecuteStopLossErr ==
    /\ pc[RT] = "rtClose"
    /\ riskEvents' = riskEvents + 1
    /\ rtBatch' = Tail(rtBatch)
    /\ pc' = [pc EXCEPT ![RT] = IF Tail(rtBatch) = << >> THEN "rtWait" ELSE "rtClose"]
    /\ UNCHANGED <<intents, positions, rules, fund, venue, auditLogs, nextId, taskQueue,
                   localVars, auditVars>>

\* checkFund: the stop-loss executor returned an error; it is logged (or
\* ignored) and the loop goes on.  No retry, no failIntent.
StopLossFailed ==
    /\ pc[RT] = "failed"
    /\ pc' = [pc EXCEPT ![RT] = AfterTask(RT)]
    /\ Release(RT)
    /\ UNCHANGED <<tableVars, taskQueue, auditVars, rtBatch>>

\* ------------------------------------------------------------------ system
PositionLimitRule ==
    RiskRule(RiskRuleTypePositionLimit,
             [json |-> TRUE, max_single_position |-> 1, max_position_size |-> 5,
              max_total_exposure |-> 100000])

\* The fund's rule sets at start.
RuleSets == {<<PositionLimitRule>>}

\* The states the system starts from: the size of the managers' intents and
\* the position table.  Either the fund is flat and the intents pass the
\* rule, or the fund holds a long position bought at 0.60 and marked at 0.50
\* (a loss above the fund's stop-loss percent) and the intents exceed
\* max_single_position.
Scenarios ==
    {[size |-> 1, positions |-> << >>],
     [size |-> 2, positions |-> <<Position(1, 60, 50)>>]}

\* The state after construction: the intent table is rows (the managers'
\* intents, with the lowest ids), the position table is pos, the rules rs,
\* the fund f and the venue's market m; the queue is empty and nothing runs
\* yet.
StartRows(rows, pos, rs, f, m) ==
    /\ intents = rows
    /\ positions = pos
    /\ rules = rs
    /\ fund = f
    /\ venue = m
    /\ auditLogs = [i \in IntentIds |-> << >>]
    /\ riskEvents = 0
    /\ nextId = Cardinality({i \in IntentIds : rows[i].Status # NoRow}) + 1
    /\ taskQueue = << >>
    /\ pc = [p \in Executors |-> IF p = RT THEN "rtWait" ELSE "idle"]
    /\ task = [p \in Executors |-> NoTask]
    /\ intent = [p \in Executors |-> EmptyRow]
    /\ loaded = [p \in Executors |-> NoRow]
    /\ orderReq = [p \in Executors |-> NoRequest]
    /\ resp = [p \in Executors |-> NoResponse]
    /\ lpos = [p \in Executors |-> NoLocalPosition]
    /\ err = [p \in Executors |-> ""]
    /\ auditPc = [r \in AuditRuns |-> "wait"]
    /\ auditBatch = [r \in AuditRuns |-> << >>]
    /\ auditCur = [r \in AuditRuns |-> [id |-> 0, row |-> EmptyRow]]
    /\ rtBatch = << >>
    /\ faults = 0
    /\ runs = [i \in IntentIds |-> 0]
    /\ dropped = {}
    /\ mainPc = "signal"

\* The start with a copy of the intent in for each id in managed.
StartOf(managed, in, pos, rs, f, m) ==
    StartRows([i \in IntentIds |-> IF i \in managed THEN in ELSE EmptyRow], pos, rs, f, m)

\* The start with the fund's default row, its rules and the venue's market;
\* the managers' intents are limit buys of the size at 0.50.
Start(managed, size, pos) ==
    \E rs \in RuleSets, m \in Markets :
        StartOf(managed,
                TradeIntent(HumanManager, TradeSideBuy, size, 50, "LIMIT",
                            IntentStatusPending),
                pos, rs, Fund, m)

Init == \E sc \in Scenarios : Start(ManagedIds, sc.size, sc.positions)

\* Every step of the system: the worker pool, the scheduler's jobs and the
\* realtime engine, then the same with a call that fails.
Next ==
    \/ \E w \in Workers : Step(Dequeue(w))
    \/ \E w \in Workers : Step(HandleError(w))
    \/ \E p \in Executors : Step(LoadIntent(p))
    \/ \E p \in Executors : Step(MarkExecuting(p))
    \/ \E p \in Executors : Step(PlaceOrder(p))
    \/ \E p \in Executors : Step(Complete(p))
    \/ \E p \in Executors : Step(ReadPosition(p))
    \/ \E p \in Executors : Step(WritePosition(p))
    \/ \E r \in OneSweep : Step(AuditFetch(r))
    \/ \E r \in OneSweep : Step(AuditMark(r))
    \/ \E r \in OneSweep : Step(AuditIntent(r))
    \/ \E r \in OneSweep : Step(AuditSubmit(r))
    \/ \E stale \in SUBSET IntentIds : Step(executeApprovedIntents(stale))
    \/ Step(RtTick)
    \/ Step(ExecuteStopLoss)
    \/ Step(StopLossFailed)
    \/ \E p \in Executors : Fault(LoadIntentErr(p))
    \/ \E p \in Executors : Fault(MarkExecutingErr(p))
    \/ \E p \in Executors : Fault(GetMarketErr(p))
    \/ \E p \in Executors : Fault(PlaceOrderTransportErr(p))
    \/ \E p \in Executors : Fault(PlaceOrderVenueErr(p))
    \/ \E p \in Executors : Fault(CompleteErr(p))
    \/ \E p \in Executors : Fault(ReadPositionErr(p))
    \/ \E p \in Executors : Fault(WritePositionErr(p))
    \/ \E r \in OneSweep : Fault(AuditMarkErr(r))
    \/ \E r \in OneSweep : Fault(AuditIntentErr(r))
    \/ \E r \in OneSweep : Fault(AuditIntentSaveErr(r))
    \/ \E r \in OneSweep : Fault(AuditIntentLogErr(r))
    \/ Fault(RtEventErr)
    \/ Fault(ExecuteStopLossErr)

Spec == Init /\ [][Next]_vars

\* ----------------------------------------------- scenario: the venue is down
\* One handler run more of the intent id (the count saturates at MaxRuns).
Counted(A, id) ==
    /\ A
    /\ runs' = [runs EXCEPT ![id] = Min(@ + 1, MaxRuns)]
    /\ UNCHANGED <<faults, dropped, mainPc>>

\* The fund is flat, and every row of the table is a manager's intent that
\* passes the rule.
PoolInit == Start(IntentIds, 1, << >>)

\* The pool and the audit sweep while every call of the venue fails with a
\* transport error; the repository works, and the intents are APPROVED for
\* less than five minutes, so that each has the one task of its audit.
RetryNext ==
    \/ \E w \in Workers : Counted(Dequeue(w), Head(taskQueue).IntentID)
    \/ \E w \in Workers : Step(HandleError(w))
    \/ \E w \in Workers : Step(LoadIntent(w))
    \/ \E w \in Workers : Step(MarkExecuting(w))
    \/ \E w \in Workers : Step(GetMarketErr(w))
    \/ \E w \in Workers : Step(PlaceOrderTransportErr(w))
    \/ \E r \in OneSweep : Step(AuditFetch(r))
    \/ \E r \in OneSweep : Step(AuditMark(r))
    \/ \E r \in OneSweep : Step(AuditIntent(r))
    \/ \E r \in OneSweep : Step(AuditSubmit(r))

SpecRetry == PoolInit /\ [][RetryNext]_vars

\* ------------------------------- scenario: nothing fails, everything runs
\* A call of SubmitTask for id, whose task is dropped when the queue is full.
Observed(A, id) ==
    /\ A
    /\ dropped' = IF Len(taskQueue) >= QueueCap THEN dropped \cup {id} ELSE dropped
    /\ UNCHANGED <<faults, runs, mainPc>>

\* The pool, the audit sweep and the execute sweep.
LiveNext ==
    \/ \E w \in Workers : Step(Dequeue(w))
    \/ \E w \in Workers : Step(HandleError(w))
    \/ \E w \in Workers : Step(LoadIntent(w))
    \/ \E w \in Workers : Step(MarkExecuting(w))
    \/ \E w \in Workers : Step(PlaceOrder(w))
    \/ \E w \in Workers : Step(Complete(w))
    \/ \E w \in Workers : Step(ReadPosition(w))
    \/ \E w \in Workers : Step(WritePosition(w))
    \/ \E r \in OneSweep : Step(AuditFetch(r))
    \/ \E r \in OneSweep : Step(AuditMark(r))
    \/ \E r \in OneSweep : Step(AuditIntent(r))
    \/ \E r \in OneSweep : Observed(AuditSubmit(r), auditCur[r].id)
    \/ \E i \in IntentIds : Step(executeApprovedIntents({i}))

\* The goroutines of the pool and the scheduler's jobs keep running, and
\* the execute sweep comes again and again at a time when the queue has room.
LiveFairness ==
    /\ \A w \in Workers :
          WF_vars(Step(Dequeue(w) \/ HandleError(w) \/ LoadIntent(w) \/ MarkExecuting(w)
                       \/ PlaceOrder(w) \/ Complete(w) \/ ReadPosition(w)
                       \/ WritePosition(w)))
    /\ \A r \in OneSweep :
          WF_vars(Step(AuditFetch(r) \/ AuditMark(r) \/ AuditIntent(r))
                  \/ Observed(AuditSubmit(r), auditCur[r].id))
    /\ \A i \in IntentIds :
          SF_vars(Len(taskQueue) < QueueCap /\ Step(executeApprovedIntents({i})))

SpecLive == PoolInit /\ [][LiveNext]_vars /\ LiveFairness

\* -------------------------------------------------- the auditor's inputs
\* The rules a fund may have: parameter blobs in and out of their ranges, a
\* blob that does not unmarshal, and a rule type the auditor does not know.
PositionLimit(single, size, exposure) ==
    RiskRule(RiskRuleTypePositionLimit,
             [json |-> TRUE, max_single_position |-> single, max_position_size |-> size,
              max_total_exposure |-> exposure])
DailyLossLimit(loss) ==
    RiskRule(RiskRuleTypeDailyLossLimit, [json |-> TRUE, max_daily_loss |-> loss])
PriceDeviation(percent) ==
    RiskRule(RiskRuleTypePriceDeviation, [json |-> TRUE, max_deviation_percent |-> percent])
Concentration(percent) ==
    RiskRule(RiskRuleTypeConcentration,
             [json |-> TRUE, max_concentration_percent |-> percent])
StopLoss(percent) ==
    RiskRule(RiskRuleTypeStopLoss, [json |-> TRUE, stop_loss_percent |-> percent])
UnknownRule == RiskRule("VOLATILITY", [json |-> TRUE])
BrokenRule == RiskRule(RiskRuleTypePriceDeviation, [json |-> FALSE])
BrokenStopLoss == RiskRule(RiskRuleTypeStopLoss, [json |-> FALSE])

AuditRules ==
    {PositionLimit(2, 5, 100000), PositionLimit(2, 5, 100), PositionLimit(0, 5, 100000),
     PositionLimit(2, 0, 100000), PositionLimit(2, -1, 100000),
     DailyLossLimit(100), DailyLossLimit(0), DailyLossLimit(-1),
     PriceDeviation(20), PriceDeviation(0), PriceDeviation(101),
     Concentration(10), Concentration(0),
     StopLoss(10), StopLoss(0),
     UnknownRule, BrokenRule}

\* The rules that come second in a fund's list of two.
SecondRules == {PositionLimit(2, 5, 100000), PriceDeviation(20), UnknownRule}

\* The fund's active rules: none, one, or two in query order.
AuditRuleSets ==
    {<< >>} \cup {<<r1>> : r1 \in AuditRules}
            \cup {<<r1, r2>> : r1 \in AuditRules, r2 \in SecondRules}

\* The fund's position table: flat; long in the intent's market and outcome;
\* long in the other outcome of the market; short in another market.
AuditPositions ==
    {<< >>,
     <<Position(1, 60, 50)>>,
     <<Position(4, 50, 50)>>,
     <<PositionIn(M1, OutcomeNo, 4, 50, 50)>>,
     <<PositionIn(M2, OutcomeYes, -2, 50, 50)>>}

\* The manager's intent: a buy of one or two units, at market (price 0) or
\* with a limit at, 20 percent above and 22 percent above 0.50.
AuditIntents ==
    {TradeIntent(HumanManager, TradeSideBuy, size, price,
                 IF price = 0 THEN "MARKET" ELSE "LIMIT", IntentStatusPending) :
        size \in {1, 2}, price \in {0, 50, 60, 61}}

\* The fund: no assets yet, or assets of 10.00.
AuditFunds == {[Fund EXCEPT !.TotalAUM = 0], [Fund EXCEPT !.TotalAUM = 1000]}

\* The venue's market: trading around 0.50, or around 0.40.
AuditMarkets == {Market(49, 51, 50), Market(39, 41, 40)}

AuditInit ==
    \E rs \in AuditRuleSets, pos \in AuditPositions, in \in AuditIntents,
       f \in AuditFunds, m \in AuditMarkets :
        StartOf(ManagedIds, in, pos, rs, f, m)

\* The audit sweep alone, on every input, with its failing calls and the
\* panic of a check.
AuditOnlyNext ==
    \/ \E r \in OneSweep : Step(AuditFetch(r))
    \/ \E r \in OneSweep : Step(AuditMark(r))
    \/ \E r \in OneSweep : Step(AuditIntent(r))
    \/ \E r \in OneSweep : Step(AuditPanic(r))
    \/ \E r \in OneSweep : Step(AuditSubmit(r))
    \/ \E r \in OneSweep : Fault(AuditMarkErr(r))
    \/ \E r \in OneSweep : Fault(AuditIntentErr(r))
    \/ \E r \in OneSweep : Fault(AuditIntentSaveErr(r))
    \/ \E r \in OneSweep : Fault(AuditIntentLogErr(r))

SpecAudit == AuditInit /\ [][AuditOnlyNext]_vars

\* ------------------------------------------------ scenario: the stop-loss
\* calculateFundNAV (daily settlement): the fund's AUM becomes the sum of
\* size * mark over its positions, and the fund row is saved.
calculateFundNAV ==
    /\ fund' = [fund EXCEPT !.TotalAUM = SumSeq(Notionals(GetFundPositions))]
    /\ fund' # fund
    /\ UNCHANGED <<intents, positions, rules, venue, auditLogs, riskEvents, nextId,
                   taskQueue, pc, localVars, auditVars, rtBatch>>

\* calculateFundNAV: GetFundPositions or UpdateFund failed; the error is
\* logged by dailySettlement and the fund row stays as it was.
calculateFundNAVErr ==
    /\ fund.TotalAUM # SumSeq(Notionals(GetFundPositions))
    /\ UNCHANGED <<tableVars, taskQueue, pc, localVars, auditVars, rtBatch>>

\* The fund's one position at start: a long with a loss above 10 percent,
\* with a loss of exactly 10 percent, and with a profit; a short with a
\* loss; a closed position (size 0) whose last price is above its entry
\* price; and a long whose entry price is 0.
StopLossPositions ==
    {<<Position(1, 60, 50)>>, <<Position(1, 50, 45)>>, <<Position(1, 50, 60)>>,
     <<Position(-1, 50, 60)>>, <<Position(0, 50, 60)>>, <<Position(1, 0, 50)>>}

\* Where the stop-loss threshold comes from: a STOP_LOSS rule of 10 or of
\* 30 percent, a STOP_LOSS rule whose parameters do not unmarshal, the
\* fund's default of 10 percent, or nowhere (default 0).
StopLossSettings ==
    {[rules |-> <<PositionLimitRule, StopLoss(10)>>, fund |-> Fund],
     [rules |-> <<PositionLimitRule, StopLoss(30)>>, fund |-> Fund],
     [rules |-> <<PositionLimitRule, BrokenStopLoss>>, fund |-> Fund],
     [rules |-> <<PositionLimitRule>>, fund |-> Fund],
     [rules |-> <<PositionLimitRule>>, fund |-> [Fund EXCEPT !.StopLossPercent = 0]]}

\* One manager's intent is PENDING, a limit buy of 1 at 0.50.
StopLossInit ==
    \E pos \in StopLossPositions, set \in StopLossSettings, m \in Markets :
        StartOf(ManagedIds,
                TradeIntent(HumanManager, TradeSideBuy, 1, 50, "LIMIT", IntentStatusPending),
                pos, set.rules, set.fund, m)

\* The audit sweep, the pool, the realtime engine with its fast path and
\* the daily settlement; of the calls only those of the engine's tick and
\* of the settlement fail.
StopLossNext ==
    \/ \E w \in Workers : Step(Dequeue(w))
    \/ \E p \in Executors : Step(LoadIntent(p))
    \/ \E p \in Executors : Step(MarkExecuting(p))
    \/ \E p \in Executors : Step(PlaceOrder(p))
    \/ \E p \in Executors : Step(Complete(p))
    \/ \E p \in Executors : Step(ReadPosition(p))
    \/ \E p \in Executors : Step(WritePosition(p))
    \/ \E r \in OneSweep : Step(AuditFetch(r))
    \/ \E r \in OneSweep : Step(AuditMark(r))
    \/ \E r \in OneSweep : Step(AuditIntent(r))
    \/ \E r \in OneSweep : Step(AuditPanic(r))
    \/ \E r \in OneSweep : Step(AuditSubmit(r))
    \/ Step(RtTick)
    \/ Step(ExecuteStopLoss)
    \/ Step(calculateFundNAV)
    \/ Fault(RtTickRulesErr)
    \/ Fault(RtEventErr)
    \/ Fault(ExecuteStopLossErr)
    \/ Fault(calculateFundNAVErr)

SpecStopLoss == StopLossInit /\ [][StopLossNext]_vars

\* ------------------------------------------ overlapping audit executions
\* The audit job with executions that overlap, and the pool; no call fails.
OverlapNext ==
    \/ \E w \in Workers : Step(Dequeue(w))
    \/ \E w \in Workers : Step(HandleError(w))
    \/ \E w \in Workers : Step(LoadIntent(w))
    \/ \E w \in Workers : Step(MarkExecuting(w))
    \/ \E w \in Workers : Step(PlaceOrder(w))
    \/ \E w \in Workers : Step(Complete(w))
    \/ \E w \in Workers : Step(ReadPosition(w))
    \/ \E w \in Workers : Step(WritePosition(w))
    \/ \E r \in AuditRuns : Step(AuditFetch(r))
    \/ \E r \in AuditRuns : Step(AuditMark(r))
    \/ \E r \in AuditRuns : Step(AuditIntent(r))
    \/ \E r \in AuditRuns : Step(AuditSubmit(r))

SpecOverlap == PoolInit /\ [][OverlapNext]_vars

\* ================================================================= claims
\* The goroutine p is between the call of the venue's PlaceOrder and the
\* return of executeTask.
AtVenue(p) == pc[p] \in {"placeOrder", "complete", "getPosition", "savePosition"}

\* The row was approved by an audit in which every check passed, or it is a
\* system-originated closing intent.
ApprovedByAuditOrSystem(row) ==
    \/ row.ManagerID = SystemManager
    \/ row.Audited /\ \A k \in 1..Len(row.Audit) : row.Audit[k].Passed

\* C1.  Risk gate: a goroutine reaches the venue's PlaceOrder only for an
\* intent that GetTradeIntent returned as APPROVED, and that row was approved
\* by an all-pass audit or created by the stop-loss fast path.
C1_RiskGate ==
    \A p \in Executors :
        AtVenue(p) => loaded[p] = IntentStatusApproved /\ ApprovedByAuditOrSystem(intent[p])

\* C1 witness: a worker has placed the order of an audited manager's intent.
C1_Witness ==
    \E w \in Workers :
        /\ pc[w] = "complete"
        /\ intent[w].ManagerID = HumanManager
        /\ intent[w].Audited
        /\ resp[w].TransactionID # NoTx

\* The status changes the specification allows.
AllowedTransitions ==
    {<<IntentStatusPending, IntentStatusAuditing>>,
     <<IntentStatusAuditing, IntentStatusApproved>>,
     <<IntentStatusAuditing, IntentStatusRejected>>,
     <<IntentStatusApproved, IntentStatusExecuting>>,
     <<IntentStatusExecuting, IntentStatusCompleted>>,
     <<IntentStatusExecuting, IntentStatusFailed>>}

EndsFailedTask(w) == pc[w] = "failed" /\ pc'[w] = "idle"

\* C4.  Retry then fail: when the venue fails on every attempt, the worker
\* that ends the 4th failed run of an intent's task persists the intent as
\* FAILED with the reason "failed after 3 retries".
C4_FailedAfterFourthFailure ==
    [][\A w \in Workers :
          (EndsFailedTask(w) /\ runs[task[w].IntentID] = maxRetries + 1)
              => /\ intents'[task[w].IntentID].Status = IntentStatusFailed
                 /\ intents'[task[w].IntentID].RejectReason = <<"retries", maxRetries>>]_vars

\* C5.  Retry is bounded: after the one submission of an intent's task, the
\* handler runs for that intent at most maxRetries + 1 times.
C5_RunsBounded == \A i \in IntentIds : runs[i] <= maxRetries + 1

\* C6.  A precondition error is not retried: a worker whose task failed the
\* status check ends the task without re-enqueueing it and without changing
\* any intent.
C6_PreconditionNotRetried ==
    [][\A w \in Workers :
          (EndsFailedTask(w) /\ err[w] = "status")
              => taskQueue' = taskQueue /\ intents' = intents]_vars

\* C7.  A permanent venue error is not retried: the worker whose order the
\* venue answered with an error does not re-enqueue the task and moves the
\* intent to FAILED.  (Stated for the tasks of the managers' intents.)
C7_VenueErrorFails ==
    [][\A w \in Workers :
          (EndsFailedTask(w) /\ err[w] = "venue" /\ task[w].IntentID \in ManagedIds)
              => /\ taskQueue' = taskQueue
                 /\ intents'[task[w].IntentID].Status = IntentStatusFailed]_vars

C9_QueueBoundedNonBlocking ==
    /\ Len(taskQueue) <= QueueCap
    /\ \A r \in AuditRuns :
          auditPc[r] = "submit" =>
              ENABLED (Step(AuditSubmit(r))
                       /\ (Len(taskQueue) = QueueCap
                              => taskQueue' = taskQueue /\ intents' = intents))
    /\ \A w \in Workers :
          pc[w] = "failed" =>
              ENABLED (Step(HandleError(w))
                       /\ (Len(taskQueue) = QueueCap
                              => taskQueue' = taskQueue /\ intents' = intents))
    /\ \A i \in IntentIds :
          intents[i].Status = IntentStatusApproved =>
              ENABLED (Step(executeApprovedIntents({i}))
                       /\ (Len(taskQueue) = QueueCap
                              => taskQueue' = taskQueue /\ intents' = intents))

\* C9 witness: the audit sweep has had the task of an intent dropped, and
\* the queue is full again while a worker is about to resubmit.
C9_Witness ==
    /\ dropped # {}
    /\ Len(taskQueue) = QueueCap
    /\ \E w \in Workers : pc[w] = "failed"

\* C10.  An APPROVED intent whose task the audit sweep's SubmitTask dropped
\* is eventually COMPLETED: the execute sweep enqueues it again.
C10_DroppedEventuallyCompleted ==
    \A i \in IntentIds :
        (i \in dropped /\ intents[i].Status = IntentStatusApproved)
            ~> (intents[i].Status = IntentStatusCompleted)

\* C10 witness: an intent whose task was dropped is COMPLETED.
C10_Witness ==
    \E i \in IntentIds : i \in dropped /\ intents[i].Status = IntentStatusCompleted

FirstFailing(checks) ==
    checks[CHOOSE k \in 1..Len(checks) :
               ~checks[k].Passed /\ \A j \in 1..(k - 1) : checks[j].Passed]

\* C12.  The verdict the auditor saved: the row holds one check per active
\* rule, it is APPROVED iff every check passed (so with no rule it is
\* APPROVED), and otherwise it is REJECTED with the rule type and message of
\* the first failing check as its reject reason.
C12_Verdict ==
    \A i \in IntentIds :
        intents[i].Audited =>
            LET row == intents[i]
                checks == row.Audit
                passed == \A k \in 1..Len(checks) : checks[k].Passed
            IN /\ Len(checks) = Len(rules)
               /\ row.Status \in {IntentStatusApproved, IntentStatusRejected}
               /\ row.Status = IntentStatusApproved <=> passed
               /\ row.Status = IntentStatusRejected =>
                      row.RejectReason = <<FirstFailing(checks).RuleType,
                                           FirstFailing(checks).Message>>

\* C12 witness: an intent is REJECTED after the checks of two rules of
\* different types both failed, with the first one's type in its reason.
C12_Witness ==
    \E i \in IntentIds :
        /\ intents[i].Audited
        /\ intents[i].Status = IntentStatusRejected
        /\ Len(intents[i].Audit) = 2
        /\ ~intents[i].Audit[1].Passed /\ ~intents[i].Audit[2].Passed
        /\ intents[i].Audit[1].RuleType # intents[i].Audit[2].RuleType
        /\ intents[i].RejectReason[1] = intents[i].Audit[1].RuleType

\* C13.  After an audit that saved its verdict, the audit log of the intent
\* holds exactly one row per active rule, in query order, the rows after a
\* failing check included, each with the rule's type and with PASS or FAIL
\* as the rule's check came out.
C13_OneLogPerRule ==
    \A i \in IntentIds :
        intents[i].Audited =>
            /\ Len(intents[i].Audit) = Len(rules)
            /\ Len(auditLogs[i]) = Len(rules)
            /\ \A k \in 1..Len(auditLogs[i]) :
                  /\ auditLogs[i][k].RuleType = rules[k].RuleType
                  /\ auditLogs[i][k].Result = "PASS" <=> intents[i].Audit[k].Passed
                  /\ auditLogs[i][k].Result \in {"PASS", "FAIL"}

\* The ids of the tasks in the queue.
Enqueued == {taskQueue[k].IntentID : k \in 1..Len(taskQueue)}

C15_UnknownRuleFails ==
    \A i \in IntentIds :
        intents[i].Audited =>
            \A k \in 1..Len(rules) :
                rules[k].RuleType \notin KnownRuleTypes =>
                    /\ Len(intents[i].Audit) = Len(rules)
                    /\ intents[i].Audit[k].RuleType = rules[k].RuleType
                    /\ ~intents[i].Audit[k].Passed
                    /\ intents[i].Audit[k].Score = 50
                    /\ intents[i].Audit[k].Message = "unknown rule type"
                    /\ intents[i].Status = IntentStatusRejected

\* The parameter ranges of the rule kinds: TRUE when a parameter of the
\* rule's blob is outside its range.
OutOfRange(rule) ==
    LET p == rule.Params
    IN /\ rule.RuleType \in KnownRuleTypes
       /\ p.json
       /\ CASE rule.RuleType = RiskRuleTypePositionLimit ->
                   \/ p.max_single_position <= 0
                   \/ p.max_position_size <= 0
                   \/ p.max_total_exposure <= 0
            [] rule.RuleType = RiskRuleTypeDailyLossLimit -> p.max_daily_loss <= 0
            [] rule.RuleType = RiskRuleTypePriceDeviation ->
                   p.max_deviation_percent <= 0 \/ p.max_deviation_percent > 100
            [] rule.RuleType = RiskRuleTypeConcentration ->
                   p.max_concentration_percent <= 0 \/ p.max_concentration_percent > 100
            [] rule.RuleType = RiskRuleTypeStopLoss ->
                   p.stop_loss_percent <= 0 \/ p.stop_loss_percent > 100

\* C16.  ParseRuleParams validates every rule kind: in an audit that saved
\* its verdict, each rule with a parameter outside its range got an error
\* from ParseRuleParams, so its check is the failed check of a parse error.
C16_EagerValidation ==
    \A i \in IntentIds :
        intents[i].Audited =>
            \A k \in 1..Len(rules) :
                OutOfRange(rules[k]) =>
                    /\ ~ParseRuleParams(rules[k].RuleType, rules[k].Params).ok
                    /\ ~intents[i].Audit[k].Passed
                    /\ intents[i].Audit[k].Score = 100

\* The sum of the signed sizes of the positions of ps with the key
\* (market, outcome).
RECURSIVE SignedSize(_, _, _)
SignedSize(ps, market, outcome) ==
    IF ps = << >> THEN 0
    ELSE (IF Head(ps).MarketID = market /\ Head(ps).OutcomeID = outcome
          THEN Head(ps).Size ELSE 0) + SignedSize(Tail(ps), market, outcome)

\* The position-limit rules of the fund whose parameters ParseRuleParams
\* accepted: the indices in the rule list.
PositionLimitChecked ==
    {k \in 1..Len(rules) :
        /\ rules[k].RuleType = RiskRuleTypePositionLimit
        /\ ParseRuleParams(rules[k].RuleType, rules[k].Params).ok}

\* C17.  The boundaries of the position-limit check in a saved verdict: it
\* fails when the intent's size is above max_single_position; else it fails
\* when the signed sizes of the positions in the intent's market and outcome
\* plus the intent's size are above max_position_size; and with a resulting
\* size up to max_position_size, the limit itself included, it does not
\* fail for the single-trade or the per-market limit.
C17_PositionLimitBoundaries ==
    \A i \in IntentIds :
        intents[i].Audited =>
            \A k \in PositionLimitChecked :
                LET p == rules[k].Params
                    in == intents[i]
                    check == in.Audit[k]
                    newSize == SignedSize(positions, in.MarketID, in.OutcomeID) + in.Size
                IN /\ in.Size > p.max_single_position
                        => ~check.Passed /\ check.Message = "single"
                   /\ (in.Size <= p.max_single_position /\ newSize > p.max_position_size)
                        => ~check.Passed /\ check.Message = "market"
                   /\ (in.Size <= p.max_single_position /\ newSize <= p.max_position_size)
                        => check.Passed \/ check.Message = "exposure"

\* C17 witness: a verdict whose position-limit check passed with the
\* resulting size in the market exactly at max_position_size, the fund
\* holding a position with the intent's key.
C17_Witness ==
    \E i \in IntentIds :
        /\ intents[i].Audited
        /\ \E k \in PositionLimitChecked :
              /\ intents[i].Audit[k].Passed
              /\ SignedSize(positions, intents[i].MarketID, intents[i].OutcomeID) > 0
              /\ SignedSize(positions, intents[i].MarketID, intents[i].OutcomeID)
                     + intents[i].Size = rules[k].Params.max_position_size

\* The exposure of a position table: the sum of |size * mark| over all rows.
RECURSIVE GrossExposure(_)
GrossExposure(ps) ==
    IF ps = << >> THEN 0
    ELSE Abs(Head(ps).Size * Head(ps).CurrentPrice) + GrossExposure(Tail(ps))

\* C18.  The total-exposure check in a saved verdict: when the single-trade
\* and per-market limits are kept, the position-limit check fails iff the
\* sum of |size * mark| over all positions of the fund plus the intent's
\* size times its price is above max_total_exposure, so that a short
\* position adds to the exposure.
C18_GrossExposure ==
    \A i \in IntentIds :
        intents[i].Audited =>
            \A k \in PositionLimitChecked :
                LET p == rules[k].Params
                    in == intents[i]
                    newSize == SignedSize(positions, in.MarketID, in.OutcomeID) + in.Size
                IN (in.Size <= p.max_single_position /\ newSize <= p.max_position_size)
                       => (~in.Audit[k].Passed
                             <=> GrossExposure(positions) + in.Size * in.Price
                                     > p.max_total_exposure)

\* The price-deviation rules of the fund whose blob ParseRuleParams accepted.
PriceDeviationChecked ==
    {k \in 1..Len(rules) :
        /\ rules[k].RuleType = RiskRuleTypePriceDeviation
        /\ ParseRuleParams(rules[k].RuleType, rules[k].Params).ok}

\* C19.  The price-deviation check in a saved verdict: a market order
\* (price 0) passes with score 0; a limit order fails iff the deviation of
\* its price from the venue's current price of the market, in percent of
\* that price, is above max_deviation_percent, a deviation equal to the
\* maximum passing.
C19_DeviationFromVenueMark ==
    \A i \in IntentIds :
        intents[i].Audited =>
            \A k \in PriceDeviationChecked :
                LET in == intents[i]
                    check == in.Audit[k]
                    mark == venue.LastPrice
                IN IF in.Price = 0
                   THEN check.Passed /\ check.Score = 0
                   ELSE ~check.Passed
                          <=> Abs(in.Price - mark) * 100
                                  > rules[k].Params.max_deviation_percent * mark

\* The signed value size * mark of the positions of ps in the market.
RECURSIVE MarketNotional(_, _)
MarketNotional(ps, market) ==
    IF ps = << >> THEN 0
    ELSE (IF Head(ps).MarketID = market
          THEN Head(ps).Size * Head(ps).CurrentPrice ELSE 0)
         + MarketNotional(Tail(ps), market)

\* The concentration rules of the fund whose blob ParseRuleParams accepted.
ConcentrationChecked ==
    {k \in 1..Len(rules) :
        /\ rules[k].RuleType = RiskRuleTypeConcentration
        /\ ParseRuleParams(rules[k].RuleType, rules[k].Params).ok}

\* C20.  The concentration check in a saved verdict: with a fund AUM of 0
\* it passes with score 0; otherwise it fails iff the value of the fund's
\* positions in the intent's market plus the intent's size times its price,
\* in percent of the AUM, is above max_concentration_percent.
C20_Concentration ==
    \A i \in IntentIds :
        intents[i].Audited =>
            \A k \in ConcentrationChecked :
                LET in == intents[i]
                    check == in.Audit[k]
                    value == MarketNotional(positions, in.MarketID) + in.Size * in.Price
                IN IF fund.TotalAUM = 0
                   THEN check.Passed /\ check.Score = 0
                   ELSE ~check.Passed
                          <=> value * 100
                                  > rules[k].Params.max_concentration_percent
                                        * fund.TotalAUM

\* C20 witness: a verdict whose concentration check failed, for a fund
\* with assets that holds a position in the intent's market.
C20_Witness ==
    \E i \in IntentIds :
        /\ intents[i].Audited
        /\ fund.TotalAUM # 0
        /\ \E k \in ConcentrationChecked :
              /\ ~intents[i].Audit[k].Passed
              /\ rules[k].Params.max_concentration_percent > 0
              /\ MarketNotional(positions, intents[i].MarketID) > 0

\* The loss percent of a position as a fraction: 0 for an entry price of 0,
\* (entry - mark) / entry * 100 for a long and (mark - entry) / entry * 100
\* for a short, and never below 0.
LossPercentOf(pos) ==
    IF pos.EntryPrice = 0 THEN Percent(0, 1)
    ELSE IF pos.Size > 0 /\ pos.EntryPrice >= pos.CurrentPrice
    THEN Percent((pos.EntryPrice - pos.CurrentPrice) * 100, pos.EntryPrice)
    ELSE IF pos.Size < 0 /\ pos.CurrentPrice >= pos.EntryPrice
    THEN Percent((pos.CurrentPrice - pos.EntryPrice) * 100, pos.EntryPrice)
    ELSE Percent(0, pos.EntryPrice)

\* Two loss percents are the same number, and neither is a failed division.
SamePercent(x, y) == ~x.panic /\ ~y.panic /\ x.num * y.den = y.num * x.den

\* C21.  When the auditor evaluates a STOP_LOSS rule, then for every
\* non-zero position of the fund its loss percent and the one of the
\* realtime engine are the same number, the loss percent of the formula,
\* and neither evaluation fails on an entry price of 0.
C21_SameLossPercent ==
    \A r \in AuditRuns :
        (auditPc[r] = "audit" /\ StopLossRules # << >>) =>
            \A k \in 1..Len(positions) :
                positions[k].Size # 0 =>
                    /\ SamePercent(calculateLossPercent(positions[k]),
                                   LossPercentOf(positions[k]))
                    /\ SamePercent(auditLossPercent(positions[k]),
                                   LossPercentOf(positions[k]))

\* The threshold of a tick that got the STOP_LOSS rules rs from the
\* repository: the first rule's percent, or the fund's default when there
\* is no rule.
StopLossThreshold(rs) ==
    IF rs = << >> THEN fund.StopLossPercent ELSE rs[1].Params.stop_loss_percent

\* The positions that tick checks: with a rule the non-zero ones, with the
\* fund's default every one.
CheckedPositions(rs) ==
    IF rs = << >> THEN GetFundPositions
    ELSE SelectSeq(GetFundPositions, LAMBDA pos : pos.Size # 0)

\* The rules a tick works with in the step it takes: none when the call of
\* GetRiskRulesByType failed.
RulesOfTick == IF faults' # faults THEN << >> ELSE StopLossRules

\* C22.  A tick invokes the stop-loss callback for exactly the checked
\* positions whose loss percent, as the engine computes it, is above the
\* threshold (or above the default of a fund without rule), each invocation
\* comes with exactly one CRITICAL RiskEvent, and no RiskEvent is recorded
\* otherwise; a loss equal to the threshold fires nothing.
C22_OneEventOneCallback ==
    [][/\ (pc[RT] = "rtWait" /\ pc'[RT] = "rtClose") =>
              rtBatch' = SelectSeq(CheckedPositions(RulesOfTick), LAMBDA pos :
                             GreaterThan(calculateLossPercent(pos),
                                         StopLossThreshold(RulesOfTick)))
       /\ (pc[RT] = "rtClose" /\ rtBatch' # rtBatch) =>
              (rtBatch' = Tail(rtBatch) /\ riskEvents' = riskEvents + 1)
       /\ riskEvents' # riskEvents =>
              (pc[RT] = "rtClose" /\ rtBatch' = Tail(rtBatch))]_vars

\* C23.  The positions for which a tick records a RiskEvent and invokes the
\* stop-loss callback are non-zero, with the threshold of a STOP_LOSS rule
\* and with the fund's default: a position of size 0 never fires.
C23_OnlyNonZeroPositions ==
    \A k \in 1..Len(rtBatch) : rtBatch[k].Size # 0

\* C24.  ExecuteStopLoss stores a new intent for the position it is given:
\* the opposite side, the absolute size, price 0, a MARKET order, APPROVED,
\* the zero UUID as manager; it hands the intent to the task handler on the
\* engine's own goroutine and puts nothing on the queue; and when the venue
\* has filled the full size, the handler's save leaves the position of that
\* market and outcome with size 0.
C24_StopLossCloses ==
    [][/\ (pc[RT] = "rtClose" /\ pc'[RT] = "load") =>
              LET pos == Head(rtBatch)
                  row == intents'[nextId]
              IN /\ intents[nextId].Status = NoRow
                 /\ row.ManagerID = SystemManager
                 /\ row.Side = (IF pos.Size > 0 THEN TradeSideSell ELSE TradeSideBuy)
                 /\ row.Size = Abs(pos.Size)
                 /\ row.Price = 0
                 /\ row.OrderType = "MARKET"
                 /\ row.Status = IntentStatusApproved
                 /\ row.MarketID = pos.MarketID /\ row.OutcomeID = pos.OutcomeID
                 /\ task'[RT] = ExecutionTask(nextId)
                 /\ taskQueue' = taskQueue
       /\ (/\ pc[RT] = "savePosition" /\ pc'[RT] # "savePosition"
           /\ positions' # positions
           /\ resp[RT].FilledSize = intent[RT].Size) =>
              \A k \in 1..Len(positions') :
                  (/\ positions'[k].MarketID = intent[RT].MarketID
                   /\ positions'[k].OutcomeID = intent[RT].OutcomeID) =>
                      positions'[k].Size = 0]_vars

\* C30.  A daily settlement sets the fund's AUM to the sum of size times mark
\* over the fund's positions, and the AUM it stores is never below 0, short
\* positions included.
C30_AumNotNegative ==
    [][fund' # fund =>
           /\ fund'.TotalAUM = SumSeq([k \in 1..Len(positions) |->
                                          positions[k].Size * positions[k].CurrentPrice])
           /\ fund'.TotalAUM >= 0]_vars

\* --------------------------------------------------- scenario: the fills
\* The position table before the fills: no row, a long position, the long
\* position of 50 @ 0.50, and a dormant row (size 0) that keeps the entry
\* price of the closed position.
FillPositions ==
    {<< >>, <<Position(1, 50, 50)>>, <<Position(50, 50, 50)>>, <<Position(0, 50, 60)>>}

\* Two APPROVED intents of the fund in one market and outcome: a buy, and
\* after it a buy or a sell, at limit prices.
FillIntents ==
    {<<TradeIntent(HumanManager, TradeSideBuy, s, 60, "LIMIT", IntentStatusApproved),
       TradeIntent(HumanManager, side, s, p, "LIMIT", IntentStatusApproved)>> :
         s \in {1}, side \in {TradeSideBuy, TradeSideSell}, p \in {40, 60}}
    \cup {<<TradeIntent(HumanManager, TradeSideBuy, 30, 55, "LIMIT", IntentStatusApproved),
            TradeIntent(HumanManager, TradeSideSell, 30, 40, "LIMIT", IntentStatusApproved)>>}

FillInit ==
    \E pos \in FillPositions, rows \in FillIntents, m \in Markets :
        StartRows(rows, pos, <<PositionLimitRule>>, Fund, m)

\* The execute sweep hands the APPROVED intents to the pool, the workers
\* fill them and update the position; GetPosition can fail.
FillNext ==
    \/ \E i \in IntentIds : Step(executeApprovedIntents({i}))
    \/ \E w \in Workers : Step(Dequeue(w))
    \/ \E w \in Workers : Step(LoadIntent(w))
    \/ \E w \in Workers : Step(MarkExecuting(w))
    \/ \E w \in Workers : Step(PlaceOrder(w))
    \/ \E w \in Workers : Step(Complete(w))
    \/ \E w \in Workers : Step(ReadPosition(w))
    \/ \E w \in Workers : Step(WritePosition(w))
    \/ \E w \in Workers : Fault(ReadPositionErr(w))

SpecFill == FillInit /\ [][FillNext]_vars

\* The fill of executor p meets the row k it has just read: the fill's size
\* and price, the row before it, and the local position after it.
FillOn(p, k) ==
    [before |-> positions[k], f |-> resp[p].FilledSize, price |-> resp[p].AvgFillPrice,
     side |-> intent[p].Side]

\* Executor p reads the position row of its intent and applies its fill.
ReadsRow(p) == pc[p] = "getPosition" /\ pc'[p] = "savePosition" /\ lpos'[p].Row # 0

\* C25.  A fill of f @ p that adds to a non-zero position (a buy into a
\* long, a sell into a short) leaves the volume-weighted entry price:
\* new_entry * |size_after| = entry_before * |size_before| + p * f, up to the
\* rounding of the quotient (50 @ 0.50 and a buy of 30 @ 0.55 give size 80
\* at 0.51875).
C25_WeightedAverageEntry ==
    [][\A p \in Executors :
          (/\ ReadsRow(p)
           /\ \/ intent[p].Side = TradeSideBuy /\ positions[lpos'[p].Row].Size > 0
              \/ intent[p].Side = TradeSideSell /\ positions[lpos'[p].Row].Size < 0) =>
              LET x == FillOn(p, lpos'[p].Row)
                  after == lpos'[p]
              IN /\ Abs(after.Size) = Abs(x.before.Size) + x.f
                 /\ 2 * Abs(after.EntryPrice * Abs(after.Size)
                            - (x.before.EntryPrice * Abs(x.before.Size) + x.price * x.f))
                        <= Abs(after.Size)]_vars

\* C26.  A buy fill of f @ p into a flat position leaves size f and entry
\* price exactly p, when the key has no row and when it has a dormant row
\* (size 0) that still carries the entry price of the closed position.
C26_FirstFillEntry ==
    [][\A p \in Executors :
          (/\ pc[p] = "getPosition" /\ pc'[p] = "savePosition"
           /\ intent[p].Side = TradeSideBuy
           /\ LET k == GetPosition(intent[p].MarketID, intent[p].OutcomeID)
              IN k = 0 \/ positions[k].Size = 0) =>
              /\ lpos'[p].Size = resp[p].FilledSize
              /\ lpos'[p].EntryPrice = resp[p].AvgFillPrice]_vars

\* C27.  A sell fill of s, at any price, on the position a buy of s has
\* left (size s) gives size 0 and the entry price the position had before
\* the sell, and the save stores that size and entry price on the row.
C27_BuyThenSellIsFlat ==
    [][\A p \in Executors :
          /\ (/\ ReadsRow(p)
              /\ intent[p].Side = TradeSideSell
              /\ resp[p].FilledSize > 0
              /\ positions[lpos'[p].Row].Size = resp[p].FilledSize) =>
                 /\ lpos'[p].Size = 0
                 /\ lpos'[p].EntryPrice = positions[lpos'[p].Row].EntryPrice
          /\ (/\ pc[p] = "savePosition" /\ pc'[p] # "savePosition"
              /\ positions' # positions /\ lpos[p].Row # 0) =>
                 /\ positions'[lpos[p].Row].Size = lpos[p].Size
                 /\ positions'[lpos[p].Row].EntryPrice = lpos[p].EntryPrice]_vars

\* Both intents are filled and saved: the buy of s made the position, the
\* sell of s at another price closed it, and the row has size 0 and keeps
\* its entry price.
C27_Witness ==
    /\ intents[1].Side = TradeSideBuy /\ intents[1].Status = IntentStatusCompleted
    /\ intents[2].Side = TradeSideSell /\ intents[2].Status = IntentStatusCompleted
    /\ intents[1].Size = intents[2].Size
    /\ intents[2].ExecutedPrice # intents[1].ExecutedPrice
    /\ \A w \in Workers : pc[w] = "idle"
    /\ faults = 0
    /\ Len(positions) = 1
    /\ positions[1].Size = 0
    /\ positions[1].EntryPrice = intents[1].ExecutedPrice
    /\ positions[1].CurrentPrice = intents[2].ExecutedPrice

\* C28.  Fills of the same position that run concurrently are additive: the
\* save of a fill leaves the stored size at the size stored just before it
\* plus the fill of a buy, or minus the fill of a sell, so that no fill is
\* lost.
C28_FillsAreAdditive ==
    [][\A p \in Executors :
          (/\ pc[p] = "savePosition" /\ pc'[p] # "savePosition"
           /\ positions' # positions /\ lpos[p].Row # 0) =>
              positions'[lpos[p].Row].Size =
                  positions[lpos[p].Row].Size
                  + (IF intent[p].Side = TradeSideBuy THEN resp[p].FilledSize
                     ELSE 0 - resp[p].FilledSize)]_vars

\* C29.  The position table has at most one row for a fund, market and
\* outcome, also after the first fills of two workers that run concurrently
\* and after a fill whose lookup failed with another error than not-found.
C29_OnePositionPerKey ==
    \A j, k \in 1..Len(positions) :
        (positions[j].MarketID = positions[k].MarketID
         /\ positions[j].OutcomeID = positions[k].OutcomeID) => j = k

\* ------------------------------------------------- scenario: the shutdown
\* RealtimeRiskEngine.stopCh is closed by rtEngine.Stop, the first call of
\* Scheduler.Stop; Executor.stopCh is closed by exec.Stop, the last call of
\* main.
rtStopCh == mainPc # "signal"
stopCh == mainPc \in {"execStop", "done"}

\* What a step of main leaves alone.
MainOnly ==
    UNCHANGED <<tableVars, taskQueue, pc, localVars, auditVars, rtBatch, faults, runs,
                dropped>>

\* What the exit of a goroutine leaves alone.
ExitOnly ==
    UNCHANGED <<tableVars, taskQueue, localVars, auditVars, rtBatch, faults, runs, dropped,
                mainPc>>

\* main: the exit signal arrives; sched.Stop calls rtEngine.Stop, which
\* closes the engine's stop channel and waits for its goroutine.
Signal == mainPc = "signal" /\ mainPc' = "rtEngineStop" /\ MainOnly

\* run: the select takes the stop case.
RtExit ==
    /\ pc[RT] = "rtWait"
    /\ rtStopCh
    /\ pc' = [pc EXCEPT ![RT] = "exited"]
    /\ ExitOnly

\* rtEngine.Stop returns when run has returned; Scheduler.Stop goes on to
\* the job runner's Shutdown.
RtEngineStopped ==
    /\ mainPc = "rtEngineStop"
    /\ pc[RT] = "exited"
    /\ mainPc' = "shutdown"
    /\ MainOnly

\* An execution of the audit job is running.
JobRunning == \E r \in AuditRuns : auditPc[r] # "wait"

\* The job runner starts executions until Shutdown is called.
JobsStart == mainPc \in {"signal", "rtEngineStop"}

\* Shutdown returns once no job is running; main calls exec.Stop, which
\* closes the pool's stop channel and waits for the workers.
Shutdown ==
    /\ mainPc = "shutdown"
    /\ ~JobRunning
    /\ mainPc' = "execStop"
    /\ MainOnly

\* Shutdown waits for the running jobs no longer than its stop timeout and
\* returns an error, which Scheduler.Stop logs.
ShutdownTimeout ==
    /\ mainPc = "shutdown"
    /\ JobRunning
    /\ mainPc' = "execStop"
    /\ MainOnly

\* worker: the select takes the stop case.
WorkerExit(w) ==
    /\ pc[w] = "idle"
    /\ stopCh
    /\ pc' = [pc EXCEPT ![w] = "exited"]
    /\ ExitOnly

\* exec.Stop returns when every worker has returned.
StopReturns ==
    /\ mainPc = "execStop"
    /\ \A w \in Workers : pc[w] = "exited"
    /\ mainPc' = "done"
    /\ MainOnly

\* A short position in loss under the fund's default stop-loss, and a
\* manager's PENDING buy.
ShutdownInit ==
    \E m \in Markets :
        StartOf(ManagedIds,
                TradeIntent(HumanManager, TradeSideBuy, 1, 50, "LIMIT", IntentStatusPending),
                <<Position(-1, 50, 60)>>, <<PositionLimitRule>>, Fund, m)

\* The pool, the audit job, the execute sweep and the realtime engine while
\* main shuts the process down; one call of the venue can fail.
ShutdownNext ==
    \/ \E w \in Workers : Step(Dequeue(w))
    \/ \E w \in Workers : Step(HandleError(w))
    \/ \E p \in Executors : Step(LoadIntent(p))
    \/ \E p \in Executors : Step(MarkExecuting(p))
    \/ \E p \in Executors : Step(PlaceOrder(p))
    \/ \E w \in Workers : Fault(PlaceOrderTransportErr(w))
    \/ \E p \in Executors : Step(Complete(p))
    \/ \E p \in Executors : Step(ReadPosition(p))
    \/ \E p \in Executors : Step(WritePosition(p))
    \/ \E r \in OneSweep : JobsStart /\ Step(AuditFetch(r))
    \/ \E r \in OneSweep : Step(AuditMark(r))
    \/ \E r \in OneSweep : Step(AuditIntent(r))
    \/ \E r \in OneSweep : Step(AuditSubmit(r))
    \/ \E i \in IntentIds : JobsStart /\ Step(executeApprovedIntents({i}))
    \/ Step(RtTick)
    \/ Step(ExecuteStopLoss)
    \/ Signal
    \/ RtExit
    \/ RtEngineStopped
    \/ Shutdown
    \/ ShutdownTimeout
    \/ \E w \in Workers : WorkerExit(w)
    \/ StopReturns

SpecShutdown == ShutdownInit /\ [][ShutdownNext]_vars

\* C31.  Once exec.Stop has closed the stop channel, a worker that is at
\* its select exits there and starts no further task, also when the queue
\* still holds tasks; and when every worker has exited, Stop returns and
\* leaves no worker running.
C31_WorkersExitOnStop ==
    [][/\ \A w \in Workers :
              (stopCh /\ pc[w] = "idle") => pc'[w] \in {"idle", "exited"}
       /\ mainPc' = "done" => \A w \in Workers : pc'[w] = "exited"]_vars

\* C32.  On shutdown main stops the scheduler before the pool, and
\* Scheduler.Stop stops the realtime engine before the job runner; when
\* the pool's Stop is called, the realtime loop has returned and no
\* execution of a scheduler job is still running.
C32_ShutdownOrder ==
    [][/\ mainPc # mainPc' =>
              \/ mainPc = "signal" /\ mainPc' = "rtEngineStop"
              \/ mainPc = "rtEngineStop" /\ mainPc' = "shutdown"
              \/ mainPc = "shutdown" /\ mainPc' = "execStop"
              \/ mainPc = "execStop" /\ mainPc' = "done"
       /\ (~stopCh /\ stopCh') => (pc[RT] = "exited" /\ ~JobRunning)]_vars

\* The task of worker w is a retry: the intent's row is EXECUTING and no
\* other goroutine is working on the intent, so the attempt that wrote
\* EXECUTING has ended.
RetryOf(w) ==
    /\ task[w] # NoTask
    /\ intents[task[w].IntentID].Status = IntentStatusExecuting
    /\ \A p \in Executors \ {w} : task[p] = NoTask \/ task[p].IntentID # task[w].IntentID

\* C33.  A task that is run again after an attempt failed at the venue is
\* not rejected because that attempt wrote EXECUTING: it passes the status
\* check and goes on to place the order again.
C33_RetryPlacesOrderAgain ==
    [][\A w \in Workers :
          (pc[w] = "load" /\ RetryOf(w) /\ loaded'[w] = IntentStatusExecuting) =>
              pc'[w] = "markExecuting"]_vars

\* The threshold a fund's positions are to be compared with: the percent of
\* its STOP_LOSS rule when it has one that parses, else the fund's default.
ThresholdOfFund ==
    IF StopLossRules # << >>
       /\ ParseRuleParams(RiskRuleTypeStopLoss, StopLossRules[1].Params).ok
    THEN StopLossRules[1].Params.stop_loss_percent
    ELSE fund.StopLossPercent

\* C34.  A tick of the realtime engine compares every non-zero position of
\* the fund with a threshold, the STOP_LOSS rule's percent when the fund
\* has such a rule and the fund's default otherwise, so that a position
\* whose loss is above it is in the tick's batch; a rule that cannot be
\* parsed does not leave the positions unchecked.  (A default of 0 means
\* that the fund has no stop-loss.)
C34_ThresholdSelection ==
    (pc[RT] = "rtWait" /\ ThresholdOfFund # 0) =>
        \A k \in 1..Len(positions) :
            (positions[k].Size # 0
             /\ GreaterThan(calculateLossPercent(positions[k]), ThresholdOfFund)) =>
                \E j \in 1..Len(Breached(GetFundPositions)) :
                    Breached(GetFundPositions)[j] = positions[k]

\* ------------------------------------------------ scenario: one tick
\* Two positions of the fund in two markets, of which one or both are in
\* loss beyond 10 percent; no intent exists yet.
TickPositions ==
    {<<PositionIn(M1, OutcomeYes, -1, 50, 60), PositionIn(M2, OutcomeNo, 1, 60, 50)>>,
     <<PositionIn(M1, OutcomeYes, 1, 60, 50), PositionIn(M2, OutcomeNo, -1, 50, 60)>>,
     <<PositionIn(M1, OutcomeYes, 1, 50, 60), PositionIn(M2, OutcomeNo, 1, 60, 50)>>}

\* The threshold is a STOP_LOSS rule's or the fund's default.
TickInit ==
    \E pos \in TickPositions, m \in Markets,
       rs \in {<<PositionLimitRule>>, <<PositionLimitRule, StopLoss(10)>>} :
        StartRows([i \in IntentIds |-> EmptyRow], pos, rs, Fund, m)

\* The realtime engine alone: the tick, the event and the callback for
\* each breached position, executeTask on the engine's goroutine, and each
\* call of the repository and the venue that can fail on the way.
TickNext ==
    \/ Step(RtTick)
    \/ Step(ExecuteStopLoss)
    \/ Step(LoadIntent(RT))
    \/ Step(MarkExecuting(RT))
    \/ Step(PlaceOrder(RT))
    \/ Step(Complete(RT))
    \/ Step(ReadPosition(RT))
    \/ Step(WritePosition(RT))
    \/ Step(StopLossFailed)
    \/ Fault(RtTickRulesErr)
    \/ Fault(RtEventErr)
    \/ Fault(ExecuteStopLossErr)
    \/ Fault(LoadIntentErr(RT))
    \/ Fault(MarkExecutingErr(RT))
    \/ Fault(GetMarketErr(RT))
    \/ Fault(PlaceOrderTransportErr(RT))
    \/ Fault(PlaceOrderVenueErr(RT))
    \/ Fault(CompleteErr(RT))
    \/ Fault(ReadPositionErr(RT))
    \/ Fault(WritePositionErr(RT))

SpecTick == TickInit /\ [][TickNext]_vars

PriceIntents ==
    {<<TradeIntent(HumanManager, s1, 1, p1, IF p1 = 0 THEN "MARKET" ELSE "LIMIT",
                   IntentStatusApproved),
       TradeIntent(HumanManager, s2, 2, p2, IF p2 = 0 THEN "MARKET" ELSE "LIMIT",
                   IntentStatusApproved)>> :
         s1 \in {TradeSideBuy, TradeSideSell}, s2 \in {TradeSideBuy, TradeSideSell},
         p1 \in {0, 55}, p2 \in {0}}

PriceInit ==
    \E rows \in PriceIntents, m \in AuditMarkets :
        StartRows(rows, << >>, <<PositionLimitRule>>, Fund, m)

\* The venue's book moves between two GetMarket calls.
MarketMoves ==
    /\ venue' \in AuditMarkets \ {venue}
    /\ UNCHANGED <<intents, positions, rules, fund, auditLogs, riskEvents, nextId,
                   taskQueue, pc, localVars, auditVars, rtBatch>>

\* The execute sweep hands the APPROVED intents to the pool and the workers
\* send their orders, while the book moves.
PriceNext ==
    \/ \E i \in IntentIds : Step(executeApprovedIntents({i}))
    \/ \E w \in Workers : Step(Dequeue(w))
    \/ \E w \in Workers : Step(LoadIntent(w))
    \/ \E w \in Workers : Step(MarkExecuting(w))
    \/ \E w \in Workers : Step(PlaceOrder(w))
    \/ \E w \in Workers : Step(Complete(w))
    \/ \E w \in Workers : Step(ReadPosition(w))
    \/ \E w \in Workers : Step(WritePosition(w))
    \/ Step(MarketMoves)

SpecPrice == PriceInit /\ [][PriceNext]_vars

\* C36.  The order a goroutine sends carries the size of its intent and,
\* as price, the intent's limit price when that is not zero, else the best
\* ask of the market for a BUY and the best bid for a SELL, with the book
\* as it stands at that step, when the intent's row has already left
\* APPROVED for EXECUTING.
C36_EffectiveOrderPrice ==
    [][\A p \in Executors :
          (pc[p] = "placeOrder" /\ pc'[p] = "complete") =>
              LET row == intents[task[p].IntentID]
              IN /\ row.Status \notin {IntentStatusPending, IntentStatusAuditing,
                                       IntentStatusApproved}
                 /\ orderReq'[p].Side = row.Side
                 /\ orderReq'[p].Size = row.Size
                 /\ row.Price # 0 => orderReq'[p].Price = row.Price
                 /\ (row.Price = 0 /\ row.Side = TradeSideBuy) =>
                        orderReq'[p].Price = venue.BestAsk
                 /\ (row.Price = 0 /\ row.Side = TradeSideSell) =>
                        orderReq'[p].Price = venue.BestBid]_vars

\* A market sell was sent at the best bid and a market buy at the best
\* ask of a book that has moved since the start.
C36_Witness ==
    \E p, q \in Workers :
        /\ orderReq[p] = [Side |-> TradeSideSell, Size |-> 1, Price |-> 39]
        /\ orderReq[q] = [Side |-> TradeSideBuy, Size |-> 2, Price |-> 51]

\* The goroutine q has sent the order of intent i to the venue in the run
\* of executeTask it is in.
OrderSentBy(q, i) ==
    /\ task[q] # NoTask
    /\ task[q].IntentID = i
    /\ pc[q] \in {"complete", "getPosition", "savePosition"}

RescueNext ==
    \/ \E w \in Workers : Step(Dequeue(w))
    \/ \E w \in Workers : Step(HandleError(w))
    \/ \E w \in Workers : Step(LoadIntent(w))
    \/ \E w \in Workers : Step(MarkExecuting(w))
    \/ \E w \in Workers : Step(PlaceOrder(w))
    \/ \E w \in Workers : Step(Complete(w))
    \/ \E w \in Workers : Step(ReadPosition(w))
    \/ \E w \in Workers : Step(WritePosition(w))
    \/ \E r \in OneSweep : Step(AuditFetch(r))
    \/ \E r \in OneSweep : Step(AuditMark(r))
    \/ \E r \in OneSweep : Step(AuditIntent(r))
    \/ \E r \in OneSweep : Observed(AuditSubmit(r), auditCur[r].id)
    \/ \E i \in IntentIds : Step(executeApprovedIntents({i}))
    \/ \E r \in OneSweep : Fault(AuditIntentErr(r))
    \/ \E w \in Workers : Fault(PlaceOrderTransportErr(w))

\* The goroutines and the jobs keep running as in SpecLive; no call is
\* bound to fail.
SpecRescue == PoolInit /\ [][RescueNext]_vars /\ LiveFairness

\* C38.  No intent stays in a non-terminal core state for ever: an intent
\* written AUDITING becomes APPROVED or REJECTED, and an intent written
\* EXECUTING becomes COMPLETED or FAILED, when failures are transient and
\* the scheduler and the workers keep running.
C38_NoIntentStuck ==
    \A i \in IntentIds :
        /\ (intents[i].Status = IntentStatusAuditing)
               ~> (intents[i].Status \in {IntentStatusApproved, IntentStatusRejected})
        /\ (intents[i].Status = IntentStatusExecuting)
               ~> (intents[i].Status \in {IntentStatusCompleted, IntentStatusFailed})

\* ------------------------------------------------ scenario: closing twice
\* The realtime engine with its failing calls as in SpecTick, and beside it
\* the pool and the execute sweep, which finds the APPROVED intents.
CloseNext ==
    \/ Step(RtTick)
    \/ Step(ExecuteStopLoss)
    \/ \E p \in Executors : Step(LoadIntent(p))
    \/ \E p \in Executors : Step(MarkExecuting(p))
    \/ \E p \in Executors : Step(PlaceOrder(p))
    \/ \E p \in Executors : Step(Complete(p))
    \/ \E p \in Executors : Step(ReadPosition(p))
    \/ \E p \in Executors : Step(WritePosition(p))
    \/ Step(StopLossFailed)
    \/ \E w \in Workers : Step(Dequeue(w))
    \/ \E w \in Workers : Step(HandleError(w))
    \/ \E i \in IntentIds : Step(executeApprovedIntents({i}))
    \/ Fault(RtEventErr)
    \/ Fault(ExecuteStopLossErr)
    \/ Fault(LoadIntentErr(RT))
    \/ Fault(MarkExecutingErr(RT))
    \/ Fault(GetMarketErr(RT))
    \/ Fault(PlaceOrderTransportErr(RT))
    \/ Fault(PlaceOrderVenueErr(RT))

SpecClose == TickInit /\ [][CloseNext]_vars

C40_FillAllOrNothing ==
    [][\A p \in Executors :
          (pc[p] = "savePosition" /\ pc'[p] # "savePosition") =>
              ((positions' # positions)
                  <=> (intents'[task[p].IntentID].Status = IntentStatusCompleted))]_vars

====
